---- MODULE Spec2Model ----
(***************************************************************************)
(* LudicrousTrie: a versioned, path-addressed Merkle-Patricia trie over    *)
(* 32-byte keys.  The module models the in-memory node tree, the trie      *)
(* engine (Get / Update / Remove), the finalizer (Hash / Commit), the      *)
(* storage collection with its (path, version) keys and the decoder that   *)
(* rebuilds nodes from stored records.                                     *)
(*                                                                         *)
(* Conventions.                                                            *)
(*  - A byte slice is a sequence of integers 0..255; the nil slice is      *)
(*    NilBytes.  A hex path is a sequence of nibbles 0..15 with an         *)
(*    optional trailing terminator 16.                                     *)
(*  - Go indexes from 0, TLA+ sequences from 1: an index argument keeps    *)
(*    the Go value and At / From / Upto do the conversion.                 *)
(*  - RLP encodings are kept as item trees (string / list) together with   *)
(*    the exact encoded length RlpLen, which is all the code inspects.     *)
(*  - Keccak256 is collision free: the hash of an encoding is represented  *)
(*    by an item of kind "hash" that carries the hashed item, and is 32    *)
(*    bytes long wherever a length matters.                                *)
(***************************************************************************)
EXTENDS Integers, Sequences, FiniteSets, TLC

(***************************************************************************)
(* Program constants                                                       *)
(***************************************************************************)
keySize == 32

hexEncodingKeySize == 65

hexEncodingTerm == 16

HashLength == 32

NumChildren == 16

numChildrenInRefFullNode == 17

valueChildIndexInRefFullNode == 16

\* 'n' : namespace byte of structural records
NonValueNamespace == 110

\* 'v' : namespace byte of value records
ValueNamespace == 118

\* rlp.EmptyString, the reserved tombstone value
deletedValue == <<128>>

\* the nil byte slice (distinct from every byte sequence, the empty one included)
NilBytes == <<-1>>

rootPath == <<>>

(***************************************************************************)
(* Generic helpers                                                         *)
(***************************************************************************)
MinOf(S) == CHOOSE x \in S : \A y \in S : x <= y

MaxOf(S) == CHOOSE x \in S : \A y \in S : y <= x

At(s, i) == s[i + 1]

From(s, i) == SubSeq(s, i + 1, Len(s))

Upto(s, i) == SubSeq(s, 1, i)

Pow2(n) == 2 ^ n

\* little-endian representation of n on w bytes
LittleEndian(n, w) == [i \in 1..w |-> (n \div (256 ^ (i - 1))) % 256]

\* big-endian representation of n on w bytes
BigEndian(n, w) == [i \in 1..w |-> (n \div (256 ^ (w - i))) % 256]

RECURSIVE BigEndianValue(_)
BigEndianValue(b) ==
    IF b = <<>> THEN 0
    ELSE 256 * BigEndianValue(Upto(b, Len(b) - 1)) + b[Len(b)]

\* byte-wise lexicographic order of the backing store
BytesLess(a, b) ==
    LET m    == IF Len(a) < Len(b) THEN Len(a) ELSE Len(b)
        diff == {i \in 1..m : a[i] # b[i]}
    IN  IF diff = {} THEN Len(a) < Len(b)
        ELSE a[MinOf(diff)] < b[MinOf(diff)]

BytesLeq(a, b) == a = b \/ BytesLess(a, b)

(***************************************************************************)
(* encoding: Keybytes, Hex, Compact                                        *)
(***************************************************************************)
KeybytesHex(kb) ==
    LET l == Len(kb) * 2 + 1
    IN  [i \in 1..l |->
            IF i = l THEN 16
            ELSE IF i % 2 = 1 THEN kb[(i + 1) \div 2] \div 16
                 ELSE kb[i \div 2] % 16]

HasTerm(h) == Len(h) > 0 /\ h[Len(h)] = 16

decodeNibbles(nibbles) ==
    [bi \in 1..(Len(nibbles) \div 2) |->
        (nibbles[2 * bi - 1] * 16 + nibbles[2 * bi]) % 256]

\* Hex.Keybytes panics on an odd number of nibbles
HexKeybytesPanics(h) ==
    LET hex == IF HasTerm(h) THEN Upto(h, Len(h) - 1) ELSE h
    IN  Len(hex) % 2 # 0

HexKeybytes(h) ==
    LET hex == IF HasTerm(h) THEN Upto(h, Len(h) - 1) ELSE h
    IN  decodeNibbles(hex)

HexCompact(h) ==
    LET terminator == IF HasTerm(h) THEN 1 ELSE 0
        hex        == IF HasTerm(h) THEN Upto(h, Len(h) - 1) ELSE h
        odd        == Len(hex) % 2 = 1
        flag       == terminator * 32 + (IF odd THEN 16 + hex[1] ELSE 0)
        rest       == IF odd THEN From(hex, 1) ELSE hex
    IN  <<flag>> \o decodeNibbles(rest)

CompactIsLeaf(c) == (c[1] \div 32) % 2 = 1

CompactHex(c) ==
    LET base0 == KeybytesHex(c)
        base  == IF base0[1] < 2 THEN Upto(base0, Len(base0) - 1) ELSE base0
        chop  == 2 - (base[1] % 2)
    IN  From(base, chop)

Join(h, suffix) == h \o suffix

FillRemainingPath(h, v) ==
    IF HasTerm(h) THEN h
    ELSE [i \in 1..hexEncodingKeySize |->
            IF i <= Len(h) THEN h[i]
            ELSE IF i < hexEncodingKeySize THEN v
            ELSE hexEncodingTerm]

PrefixLen(h, o) ==
    LET m    == IF Len(o) < Len(h) THEN Len(o) ELSE Len(h)
        diff == {i \in 1..m : h[i] # o[i]}
    IN  IF diff = {} THEN m ELSE MinOf(diff) - 1

(***************************************************************************)
(* storage.Key                                                             *)
(***************************************************************************)
\* a storage key whose odd flag is never set
NewKeyWithoutOddFlag(path, version) ==
    LET oddLenKey == Len(path) # 65 /\ Len(path) % 2 = 1
        p         == IF oddLenKey THEN path \o <<0>> ELSE path
    IN  HexKeybytes(p) \o <<0>> \o BigEndian(version, 4)

NewKey(path, version) ==
    LET oddLenKey == Len(path) # 65 /\ Len(path) % 2 = 1
        p         == IF oddLenKey THEN path \o <<0>> ELSE path
        metadata  == <<IF oddLenKey THEN 1 ELSE 0>> \o BigEndian(version, 4)
    IN  HexKeybytes(p) \o metadata

KeyPath(k) == Upto(k, Len(k) - 5)

KeyVersion(k) == BigEndianValue(From(k, Len(k) - 4))

KeyOddByte(k) == At(k, Len(k) - 5)

KeyRel(k, base) == From(KeybytesHex(KeyPath(k)), Len(base))

(***************************************************************************)
(* RLP items.  An encoding is an item tree; RlpLen is its exact length.    *)
(***************************************************************************)
RStr(b) == [t |-> "str", b |-> b, items |-> <<>>]

RList(items) == [t |-> "list", b |-> <<>>, items |-> items]

\* crypto.Keccak256Hash of the encoding of item, as a 32-byte string
Keccak256Hash(item) == [t |-> "hash", b |-> <<>>, items |-> <<item>>]

\* a value record holds the raw value bytes, not an RLP encoding
RawBlob(b) == [t |-> "raw", b |-> b, items |-> <<>>]

emptyRoot == Keccak256Hash(RStr(<<>>))

\* minimal big-endian bytes of an unsigned integer (rlp integer encoding)
RECURSIVE MinimalBigEndian(_)
MinimalBigEndian(n) ==
    IF n = 0 THEN <<>> ELSE MinimalBigEndian(n \div 256) \o <<n % 256>>

RUint(n) == RStr(MinimalBigEndian(n))

RlpHeaderLen(n) == IF n < 56 THEN 1 ELSE 1 + Len(MinimalBigEndian(n))

RECURSIVE RlpSumLen(_, _)
RECURSIVE RlpLen(_)
RlpLen(item) ==
    CASE item.t = "hash" -> 1 + HashLength
      [] item.t = "str"  ->
            IF Len(item.b) = 1 /\ item.b[1] < 128 THEN 1
            ELSE RlpHeaderLen(Len(item.b)) + Len(item.b)
      [] item.t = "list" ->
            LET payload == RlpSumLen(item.items, Len(item.items))
            IN  RlpHeaderLen(payload) + payload
      [] OTHER -> 0

RlpSumLen(items, n) ==
    IF n = 0 THEN 0 ELSE RlpSumLen(items, n - 1) + RlpLen(items[n])

\* rlp.Kind of an item
IsEmptyString(item) == item.t = "str" /\ item.b = <<>>

IsByteKind(item) == item.t = "str" /\ Len(item.b) = 1 /\ item.b[1] < 128

IsStringKind(item) == item.t = "hash" \/ (item.t = "str" /\ ~IsByteKind(item))

IsListKind(item) == item.t = "list"

(***************************************************************************)
(* versionnode: the in-memory node variants                                *)
(***************************************************************************)
NewNil == [kind |-> "Nil"]

NewLeaf(key, value, version) ==
    [kind |-> "Leaf", Key |-> key, Value |-> value, version |-> version]

NewFull(key, children, version) ==
    [kind |-> "Full", Key |-> key, Children |-> children, version |-> version]

NewStored(hash, isLeaf, version) ==
    [kind |-> "Stored", Hash |-> hash, IsLeaf |-> isLeaf, version |-> version]

NewWithDeletedKeys(node, deletedKeys) ==
    [kind |-> "WithDeletedKeys", Node |-> node, DeletedKeys |-> deletedKeys]

\* the result of decoding a bare string: a hash reference, not yet a node
HashNode(hash) == [kind |-> "Hash", Hash |-> hash]

IsNil(n) == n.kind = "Nil"

\* the types that implement versionnode.Live
IsLive(n) == n.kind \in {"Nil", "Leaf", "Full", "WithDeletedKeys"}

Radixes == 0..(NumChildren - 1)

NilChildren == [i \in Radixes |-> NewNil]

\* KeySet: map from full hex path to the version of the removal
noDeletedKeys == <<>>

NewKeySet(key, version) == [p \in {key} |-> version]

KeySetLen(ks) == Cardinality(DOMAIN ks)

KeySetContains(ks, path) == path \in DOMAIN ks

KeySetRemove(ks, path) == [p \in (DOMAIN ks) \ {path} |-> ks[p]]

\* a merge that keeps only the keys of the other set
KeySetMergeForgets(ks, others) == others

KeySetMerge(ks, others) ==
    [p \in (DOMAIN ks) \cup (DOMAIN others) |->
        IF p \in DOMAIN others THEN others[p] ELSE ks[p]]

RECURSIVE NodePanicsOnVersion(_)
NodePanicsOnVersion(n) ==
    CASE n.kind = "Nil" -> TRUE
      [] n.kind = "Hash" -> TRUE
      [] n.kind = "WithDeletedKeys" -> NodePanicsOnVersion(n.Node)
      [] OTHER -> FALSE

RECURSIVE NodeVersion(_)
NodeVersion(n) ==
    CASE n.kind = "WithDeletedKeys" -> NodeVersion(n.Node)
      [] n.kind \in {"Leaf", "Full", "Stored"} -> n.version
      [] OTHER -> 0

RECURSIVE NodePrefix(_)
NodePrefix(n) ==
    CASE n.kind = "WithDeletedKeys" -> NodePrefix(n.Node)
      [] n.kind \in {"Leaf", "Full"} -> n.Key
      [] OTHER -> <<>>

prefixContainedIn(prefix, path, start) ==
    PrefixLen(prefix, From(path, start)) = Len(prefix)

RECURSIVE PrefixContainedIn(_, _, _)
PrefixContainedIn(n, path, start) ==
    CASE n.kind = "Nil" -> FALSE
      [] n.kind = "WithDeletedKeys" -> PrefixContainedIn(n.Node, path, start)
      [] OTHER -> prefixContainedIn(n.Key, path, start)

RECURSIVE ReplacePrefix(_, _, _)
\* a ReplacePrefix that keeps the old prefix
ReplacePrefixKeepsPrefix(n, key, version) == n

ReplacePrefix(n, key, version) ==
    CASE n.kind = "Leaf" -> NewLeaf(key, n.Value, version)
      [] n.kind = "Full" -> NewFull(key, n.Children, version)
      [] n.kind = "WithDeletedKeys" ->
            NewWithDeletedKeys(ReplacePrefix(n.Node, key, version), n.DeletedKeys)
      [] OTHER -> n

\* a HasSameValue that never finds the value in place
HasSameValueNever(n, value) == FALSE

HasSameValue(n, value) == value = n.Value

\* a ReplaceValue that keeps the old value
ReplaceValueKeepsValue(n, value, version) == NewLeaf(n.Key, n.Value, version)

ReplaceValue(n, value, version) == NewLeaf(n.Key, value, version)

SliceKey(n, start, version) == NewLeaf(From(n.Key, start), n.Value, version)

SliceOffset(n, start, version) == NewFull(From(n.Key, start), n.Children, version)

\* a branch of two children that drops the prefix the two paths share
NewFullNodeWithTwoChildrenWithoutPrefix(key, firstChildIndex, firstChild, secondChildIndex, secondChild, version) ==
    NewFull(<<>>,
            [i \in Radixes |->
                IF i = secondChildIndex THEN secondChild
                ELSE IF i = firstChildIndex THEN firstChild
                ELSE NewNil],
            version)

NewFullNodeWithTwoChildren(key, firstChildIndex, firstChild, secondChildIndex, secondChild, version) ==
    NewFull(key,
            [i \in Radixes |->
                IF i = secondChildIndex THEN secondChild
                ELSE IF i = firstChildIndex THEN firstChild
                ELSE NewNil],
            version)

RECURSIVE AddSibling(_, _, _, _, _)
AddSibling(n, key, fullPath, value, version) ==
    CASE n.kind = "Nil" -> NewLeaf(key, value, version)
      [] n.kind = "Leaf" ->
            LET matchlen == PrefixLen(key, n.Key)
            IN  NewFullNodeWithTwoChildren(
                    Upto(key, matchlen),
                    At(n.Key, matchlen), SliceKey(n, matchlen + 1, version),
                    At(key, matchlen), NewLeaf(From(key, matchlen + 1), value, version),
                    version)
      [] n.kind = "Full" ->
            LET matchlen == PrefixLen(key, n.Key)
            IN  NewFullNodeWithTwoChildren(
                    Upto(key, matchlen),
                    At(n.Key, matchlen), SliceOffset(n, matchlen + 1, version),
                    At(key, matchlen), NewLeaf(From(key, matchlen + 1), value, version),
                    version)
      [] n.kind = "WithDeletedKeys" ->
            LET newNode == AddSibling(n.Node, key, fullPath, value, version)
                remainingDeletedKeys == KeySetRemove(n.DeletedKeys, fullPath)
            IN  IF ~KeySetContains(n.DeletedKeys, fullPath)
                THEN NewWithDeletedKeys(newNode, n.DeletedKeys)
                ELSE IF KeySetLen(remainingDeletedKeys) = 0 THEN newNode
                ELSE NewWithDeletedKeys(newNode, remainingDeletedKeys)
      [] OTHER -> n

\* Children.LastLivingChild: index of the last non-Nil child (-1 if none) and
\* whether it is the only one
LastLivingChild(c) ==
    LET living == {i \in Radixes : ~IsNil(c[i])}
    IN  [index     |-> IF living = {} THEN -1 ELSE MaxOf(living),
         onlyChild |-> Cardinality(living) = 1]

ChildrenReplace(c, index, node) == [c EXCEPT ![index] = node]

(***************************************************************************)
(* ChildrenMask                                                            *)
(***************************************************************************)
MaskTest(m, offset) == (m \div Pow2(offset)) % 2 = 1

MaskSet(m, offset) == IF MaskTest(m, offset) THEN m ELSE m + Pow2(offset)

(***************************************************************************)
(* Results: a Go (value, error) pair.  err = "" is the nil error; the err   *)
(* "panic" stands for a run-time panic of the call.  A result that is used *)
(* more than once is bound as the parameter of a local operator.           *)
(***************************************************************************)
Ok(n) == [n |-> n, err |-> ""]

Fail(e) == [n |-> NewNil, err |-> e]

IsPanic(e) == e = "panic"

\* the error of the first failed result of the family rs over the indices S
FirstErr(rs, S) == rs[MinOf({i \in S : rs[i].err # ""})].err

(***************************************************************************)
(* storage: decoding of stored records                                     *)
(***************************************************************************)
\* decodeKey = rlp.SplitString of the first element
decodeKey(item) ==
    IF item.t # "str" THEN Fail("rlp: expected String or Byte")
    ELSE IF item.b = <<>> THEN Fail("panic")
    ELSE Ok(item.b)

decodeValue(item) ==
    IF item.t # "str" THEN Fail("rlp: expected String or Byte") ELSE Ok(item.b)

decodeLeafNode(key, item, version) ==
    LET Decoded(value) ==
            IF value.err # "" THEN Fail(value.err)
            ELSE Ok(NewLeaf(key, value.n, version))
    IN  Decoded(decodeValue(item))

decodeVersion(item) ==
    IF item.t # "str" THEN Fail("rlp: expected String or Byte")
    ELSE IF Len(item.b) = 0 THEN Ok(0)
    ELSE IF IsByteKind(item) THEN Ok(item.b[1])
    ELSE IF Len(item.b) > 4 THEN Fail("panic")
    ELSE Ok(BigEndianValue(item.b))

decodeVersions(item) ==
    LET Collected(vs) ==
            IF \E i \in DOMAIN vs : vs[i].err # "" THEN Fail(FirstErr(vs, DOMAIN vs))
            ELSE Ok([i \in DOMAIN vs |-> vs[i].n])
    IN  IF item.t # "list" THEN Fail("rlp: expected List")
        ELSE Collected([i \in 1..Len(item.items) |-> decodeVersion(item.items[i])])

decodeChildrenMask(item) ==
    IF item.t \notin {"str", "list"} THEN Fail("rlp: value size exceeds available input")
    ELSE IF item.t = "list" THEN Ok(0)
    ELSE IF Len(item.b) = 0 THEN Ok(0)
    ELSE IF Len(item.b) = 1 THEN Ok(item.b[1])
    ELSE Ok(item.b[1] * 256 + item.b[2])

\* the child of a decoded Full node in slot i: a hash reference becomes a
\* Stored placeholder that carries the slot's leaf bit and version
decodedChild(dec, isLeaf, version) ==
    IF dec.n.kind = "Hash" THEN NewStored(dec.n.Hash, isLeaf, version) ELSE dec.n

RECURSIVE decodeNode(_, _)
RECURSIVE decodeShortNode(_, _)
RECURSIVE decodeLegacyFullNode(_, _, _)
\* decodeFullNode: the five-element record [key, living, leaf, versions, children]
decodeFullNode(items, version) ==
    LET Build(key, living, leaf, versions, list) ==
            LET slots   == {i \in Radixes : MaskTest(living.n, i)}
                rank(i) == Cardinality({j \in slots : j < i}) + 1
                Children(dec) ==
                    IF \E i \in slots : dec[i].err # "" THEN Fail(FirstErr(dec, slots))
                    ELSE Ok(NewFull(CompactHex(key.n),
                                    [i \in Radixes |->
                                        IF i \notin slots THEN NewNil
                                        ELSE decodedChild(dec[i], MaskTest(leaf.n, i), versions.n[rank(i)])],
                                    version))
            IN  IF key.err # "" THEN Fail(key.err)
                ELSE IF living.err # "" THEN Fail(living.err)
                ELSE IF leaf.err # "" THEN Fail(leaf.err)
                ELSE IF versions.err # "" THEN Fail(versions.err)
                ELSE IF list.t # "list" THEN Fail("panic")
                ELSE Children([i \in slots |->
                        IF rank(i) > Len(versions.n) THEN Fail("panic")
                        ELSE IF rank(i) > Len(list.items)
                             THEN Fail("rlp: value size exceeds available input")
                        ELSE decodeNode(list.items[rank(i)], versions.n[rank(i)])])
    IN  Build(decodeKey(items[1]), decodeChildrenMask(items[2]), decodeChildrenMask(items[3]),
              decodeVersions(items[4]), items[5])

decodeNode(item, version) ==
    IF item.t \notin {"str", "hash", "list"} THEN Fail("rlp: value size exceeds available input")
    ELSE IF IsEmptyString(item) THEN Ok(NewNil)
    ELSE IF IsStringKind(item) THEN Ok(HashNode(item))
    ELSE IF IsByteKind(item) THEN Fail("Could not decode node")
    ELSE CASE Len(item.items) = 2  -> decodeShortNode(item.items, version)
           [] Len(item.items) = 5  -> decodeFullNode(item.items, version)
           [] Len(item.items) = 17 -> decodeLegacyFullNode(<<>>, item.items, version)
           [] OTHER -> Fail("Could not decode node")

decodeShortNode(items, version) ==
    LET Short(key) ==
            IF key.err # "" THEN Fail(key.err)
            ELSE IF CompactIsLeaf(key.n) THEN decodeLeafNode(CompactHex(key.n), items[2], version)
            ELSE IF items[2].t # "list" THEN Fail("rlp: expected List")
            ELSE decodeLegacyFullNode(CompactHex(key.n), items[2].items, version)
    IN  Short(decodeKey(items[1]))

decodeLegacyFullNode(key, items, version) ==
    LET Build(dec) ==
            IF \E i \in Radixes : dec[i].err # "" THEN Fail(FirstErr(dec, Radixes))
            ELSE Ok(NewFull(key, [i \in Radixes |-> dec[i].n], version))
    IN  Build([i \in Radixes |->
                IF i + 1 > Len(items) THEN Fail("rlp: value size exceeds available input")
                ELSE IF IsEmptyString(items[i + 1]) THEN Ok(NewNil)
                ELSE IF items[i + 1].t # "list" THEN Fail("Could not decode node")
                ELSE CASE Len(items[i + 1].items) = 2  -> decodeShortNode(items[i + 1].items, version)
                       [] Len(items[i + 1].items) = 17 -> decodeLegacyFullNode(<<>>, items[i + 1].items, version)
                       [] OTHER -> Fail("Could not decode node")])

decodeVersionedNodeWithPrefix(blob, version) ==
    IF blob.t # "list" THEN Fail("rlp: expected List")
    ELSE IF Len(blob.items) \in {2, 5, 17} THEN decodeNode(blob, version)
    ELSE Fail("Could not decode node")

(***************************************************************************)
(* storage.Collection over the backing store.  A collection is a record   *)
(* [prefix, db]; db is a function from store keys to stored blobs.         *)
(***************************************************************************)
NewPrefixedCollection(prefix, db) == [prefix |-> prefix, db |-> db]

maybeValuePrefix(c, key) == c.prefix \o <<ValueNamespace>> \o key

maybeNonValuePrefix(c, key) == c.prefix \o <<NonValueNamespace>> \o key

PrefixPanics(c) == Len(c.prefix) = 0

\* ethdb: the keys of the half-open range [start, limit)
NewIteratorForRange(db, start, limit) ==
    {k \in DOMAIN db : BytesLeq(start, k) /\ BytesLess(k, limit)}

\* the iterator spans start..end inclusively; keys are reported without the
\* collection prefix and the namespace byte
valueIteratorForRange(c, start, end) ==
    {From(k, Len(c.prefix) + 1) :
        k \in NewIteratorForRange(c.db, maybeValuePrefix(c, start), maybeValuePrefix(c, end \o <<0>>))}

nonValueIteratorForRange(c, start, end) ==
    {From(k, Len(c.prefix) + 1) :
        k \in NewIteratorForRange(c.db, maybeNonValuePrefix(c, start), maybeNonValuePrefix(c, end \o <<0>>))}

\* iterator.Last: the greatest key of a non-empty set of keys
LastKey(keys) == CHOOSE k \in keys : \A o \in keys : BytesLeq(o, k)

\* a batch is the sequence of its puts, applied in order by Write
BatchPut(key, blob) == [key |-> key, blob |-> blob]

\* a Write that submits nothing
BatchWriteNothing(db, batch) == db

RECURSIVE BatchWrite(_, _)
BatchWrite(db, batch) ==
    IF batch = <<>> THEN db
    ELSE BatchWrite([k \in (DOMAIN db) \cup {batch[1].key} |->
                        IF k = batch[1].key THEN batch[1].blob ELSE db[k]],
                    Tail(batch))

Store(c, path, version, node) ==
    BatchPut(maybeNonValuePrefix(c, NewKey(path, version)), node)

StoreValue(c, path, version, value) ==
    BatchPut(maybeValuePrefix(c, NewKey(path, version)), RawBlob(value))

LoadNode(c, path, version) ==
    LET Loaded(key, k) ==
            IF PrefixPanics(c) THEN Fail("panic")
            ELSE IF k \notin DOMAIN c.db THEN Fail("leveldb: not found")
            ELSE decodeVersionedNodeWithPrefix(c.db[k], KeyVersion(key))
        Keyed(key) == Loaded(key, maybeNonValuePrefix(c, key))
    IN  Keyed(NewKey(path, version))

\* a value lookup that takes the first value record of the path
LoadEarliestValueNodeWithExactPath(c, path, maxVersion) ==
    LET keys == valueIteratorForRange(c, NewKey(path, 0), NewKey(path, maxVersion))
    IN  IF keys = {} THEN [n |-> NilBytes, err |-> ""]
        ELSE [n |-> c.db[maybeValuePrefix(c, CHOOSE k \in keys : \A o \in keys : BytesLeq(k, o))].b,
              err |-> ""]

\* a value lookup that takes the newest value record of the path, whatever
\* its version
LoadNewestValueNodeWithExactPath(c, path, maxVersion) ==
    LET keys == valueIteratorForRange(c, NewKey(path, 0), NewKey(path, maxVersion + 65535))
    IN  IF keys = {} THEN [n |-> NilBytes, err |-> ""]
        ELSE [n |-> c.db[maybeValuePrefix(c, LastKey(keys))].b, err |-> ""]

LoadLatestValueNodeWithExactPath(c, path, maxVersion) ==
    LET Latest(keys) ==
            IF keys = {} THEN [n |-> NilBytes, err |-> ""]
            ELSE [n |-> c.db[maybeValuePrefix(c, LastKey(keys))].b, err |-> ""]
    IN  IF ~HasTerm(path) THEN [n |-> NilBytes, err |-> "Path does not have a terminator"]
        ELSE IF PrefixPanics(c) THEN [n |-> NilBytes, err |-> "panic"]
        ELSE Latest(valueIteratorForRange(c, NewKey(path, 0), NewKey(path, maxVersion)))

LoadLeafNodeWithExactPrefixAndVersion(c, prefix, version) ==
    LET Hit(storageKey) ==
            Ok(NewLeaf(KeyRel(storageKey, prefix),
                       c.db[maybeValuePrefix(c, storageKey)].b,
                       KeyVersion(storageKey)))
        Found(hits) ==
            IF hits = {} THEN Fail("could not find value Node with hex-encoded prefix and Version")
            ELSE Hit(LastKey(hits))
    IN  IF PrefixPanics(c) THEN Fail("panic")
        ELSE Found({k \in valueIteratorForRange(c, NewKey(FillRemainingPath(prefix, 0), version),
                                                   NewKey(FillRemainingPath(prefix, 15), version)) :
                        /\ version = KeyVersion(k)
                        /\ c.db[maybeValuePrefix(c, k)].b # deletedValue})

\* the scan runs from the last key of the range backwards and stops at the
\* first key whose path is the root path; it panics when there is none
LoadLatestRootNode(c, maxVersion) ==
    LET Hit(storageKey) ==
            decodeNode(c.db[maybeNonValuePrefix(c, storageKey)], KeyVersion(storageKey))
        Scanned(hits) ==
            IF hits = {} THEN Fail("panic") ELSE Hit(LastKey(hits))
    IN  IF PrefixPanics(c) THEN Fail("panic")
        ELSE Scanned({k \in nonValueIteratorForRange(c, NewKey(rootPath, 0),
                                                      NewKey(rootPath, maxVersion)) :
                        KeyPath(k) = rootPath})

(***************************************************************************)
(* storage.Finalizer                                                       *)
(***************************************************************************)
doForceHash == TRUE

doNotForceHash == FALSE

doStore == TRUE

doNotStore == FALSE

RECURSIVE SetToSeq(_)
SetToSeq(S) ==
    IF S = {} THEN <<>>
    ELSE LET Cons(x) == <<x>> \o SetToSeq(S \ {x})
         IN  Cons(CHOOSE y \in S : TRUE)

FinalizeResult(item, batch, err) == [item |-> item, batch |-> batch, err |-> err]

RECURSIVE representsLeafNode(_)
representsLeafNode(n) ==
    CASE n.kind = "Leaf" -> TRUE
      [] n.kind = "Stored" -> n.IsLeaf
      [] n.kind = "WithDeletedKeys" -> representsLeafNode(n.Node)
      [] OTHER -> FALSE

\* the ChildrenMask with the bits of S set
RECURSIVE MaskOf(_, _)
MaskOf(S, i) ==
    IF i = NumChildren THEN 0
    ELSE (IF i \in S THEN Pow2(i) ELSE 0) + MaskOf(S, i + 1)

\* the members of a set of radixes in increasing order
InOrder(S) ==
    [k \in 1..Cardinality(S) |-> CHOOSE i \in S : Cardinality({j \in S : j < i}) = k - 1]

\* a record that carries the version of the branch for each of its children
storedFullNodeWithBranchVersions(full, integrityChildren) ==
    LET Record(order) ==
            RList(<<RStr(HexCompact(full.Key)),
                    RUint(MaskOf({i \in Radixes : ~IsNil(full.Children[i])}, 0)),
                    RUint(MaskOf({i \in Radixes : representsLeafNode(full.Children[i])}, 0)),
                    RList([k \in DOMAIN order |-> RUint(full.version)]),
                    RList([k \in DOMAIN order |-> integrityChildren[order[k]]])>>)
    IN  Record(InOrder({i \in Radixes : ~IsNil(full.Children[i])}))

\* the compact versioned record of a Full node (storage.Full)
storedFullNode(full, integrityChildren) ==
    LET Record(order) ==
            RList(<<RStr(HexCompact(full.Key)),
                    RUint(MaskOf({i \in Radixes : ~IsNil(full.Children[i])}, 0)),
                    RUint(MaskOf({i \in Radixes : representsLeafNode(full.Children[i])}, 0)),
                    RList([k \in DOMAIN order |-> RUint(NodeVersion(full.Children[order[k]]))]),
                    RList([k \in DOMAIN order |-> integrityChildren[order[k]]])>>)
    IN  Record(InOrder({i \in Radixes : ~IsNil(full.Children[i])}))

\* storeFullNode stages the record; its error result is dropped by the caller
storeFullNode(c, full, path, integrityChildren) ==
    Store(c, path, full.version, storedFullNode(full, integrityChildren))

\* a canonical form that drops the extension around a branch with a prefix
canonicalFullNodeWithoutExtension(full, key) == full

canonicalFullNodeIntegrityNodeAndRLP(full, key) ==
    IF Len(key) = 0 THEN full
    ELSE RList(<<RStr(HexCompact(key)),
                 IF RlpLen(full) >= HashLength THEN Keccak256Hash(full) ELSE full>>)

RECURSIVE ConcatBatches(_, _)
ConcatBatches(r, i) ==
    IF i = NumChildren THEN <<>> ELSE r[i].batch \o ConcatBatches(r, i + 1)

RECURSIVE finalize(_, _, _, _, _)
finalizeLeafNode(c, leaf, path, store, forceHash) ==
    LET Finalized(integrityLeaf, storagePath) ==
            IF store /\ PrefixPanics(c) THEN FinalizeResult(integrityLeaf, <<>>, "panic")
            ELSE IF store /\ Len(storagePath) # 65 THEN FinalizeResult(integrityLeaf, <<>>, "panic")
            ELSE FinalizeResult(
                    IF RlpLen(integrityLeaf) >= HashLength \/ forceHash
                    THEN Keccak256Hash(integrityLeaf) ELSE integrityLeaf,
                    (IF forceHash /\ store
                     THEN <<Store(c, path, leaf.version, integrityLeaf)>> ELSE <<>>)
                    \o (IF store
                        THEN <<StoreValue(c, storagePath, leaf.version, leaf.Value)>> ELSE <<>>),
                    "")
    IN  Finalized(RList(<<RStr(HexCompact(leaf.Key)), RStr(leaf.Value)>>), Join(path, leaf.Key))

finalizeFullNodeChildren(c, full, path, store, forceHash) ==
    [i \in Radixes |-> finalize(c, full.Children[i], path \o full.Key \o <<i>>, store, doNotForceHash)]

finalizeFullNode(c, full, path, store, forceHash) ==
    LET Hashed(r, canonical, hashed) ==
            IF \E i \in Radixes : r[i].err # ""
            THEN FinalizeResult(canonical, <<>>, FirstErr(r, Radixes))
            ELSE IF /\ store /\ hashed
                    /\ \/ PrefixPanics(c)
                       \/ \E i \in Radixes : /\ ~IsNil(full.Children[i])
                                             /\ NodePanicsOnVersion(full.Children[i])
                 THEN FinalizeResult(canonical, <<>>, "panic")
            ELSE FinalizeResult(
                    IF hashed THEN Keccak256Hash(canonical) ELSE canonical,
                    ConcatBatches(r, 0)
                    \o (IF store /\ hashed
                        THEN <<storeFullNode(c, full, path, [i \in Radixes |-> r[i].item])>>
                        ELSE <<>>),
                    "")
        Canonical(r, canonical) ==
            Hashed(r, canonical, RlpLen(canonical) >= HashLength \/ forceHash)
        Children(r) ==
            Canonical(r, canonicalFullNodeIntegrityNodeAndRLP(
                            RList([i \in 1..numChildrenInRefFullNode |->
                                     IF i = valueChildIndexInRefFullNode + 1
                                     THEN RStr(<<>>) ELSE r[i - 1].item]),
                            full.Key))
    IN  Children(finalizeFullNodeChildren(c, full, path, store, forceHash))

\* the tombstone records of a WithDeletedKeys node
tombstonePuts(c, deletedKeys) ==
    LET Puts(paths) ==
            [k \in DOMAIN paths |-> StoreValue(c, paths[k], deletedKeys[paths[k]], deletedValue)]
    IN  Puts(SetToSeq(DOMAIN deletedKeys))

finalize(c, n, path, store, forceHash) ==
    CASE n.kind = "Nil" ->
            FinalizeResult(IF forceHash THEN emptyRoot ELSE RStr(<<>>), <<>>, "")
      [] n.kind = "WithDeletedKeys" ->
            LET Wrapped(inner) ==
                    IF store /\ KeySetLen(n.DeletedKeys) > 0 /\ PrefixPanics(c)
                    THEN FinalizeResult(inner.item, <<>>, "panic")
                    ELSE FinalizeResult(
                            inner.item,
                            (IF store THEN tombstonePuts(c, n.DeletedKeys) ELSE <<>>) \o inner.batch,
                            inner.err)
            IN  Wrapped(finalize(c, n.Node, path, store, forceHash))
      [] n.kind = "Leaf" -> finalizeLeafNode(c, n, path, store, forceHash)
      [] n.kind = "Full" -> finalizeFullNode(c, n, path, store, forceHash)
      [] n.kind = "Stored" -> FinalizeResult(n.Hash, <<>>, "")
      [] OTHER -> FinalizeResult(RStr(<<>>), <<>>, "finalize: unsupported Node type")

\* Finalize returns the hash, the store after the batch was written and the
\* error; the final conversion to a hash panics on an inline node
Finalize(c, n, path, shouldStore, forceHash) ==
    LET Finalized(i) ==
            IF i.err # "" THEN [hash |-> emptyRoot, db |-> c.db, err |-> i.err]
            ELSE IF i.item.t # "hash" THEN [hash |-> emptyRoot, db |-> c.db, err |-> "panic"]
            ELSE [hash |-> i.item,
                  db   |-> IF shouldStore THEN BatchWrite(c.db, i.batch) ELSE c.db,
                  err  |-> ""]
    IN  Finalized(finalize(c, n, path, shouldStore, forceHash))

(***************************************************************************)
(* LudicrousTrie: a trie instance is the record [version, root, storage]   *)
(***************************************************************************)
Trie(version, root, storage) == [version |-> version, root |-> root, storage |-> storage]

\* the nil *LudicrousTrie that a failed constructor returns
NilTrie == Trie(0, NewNil, NewPrefixedCollection(<<>>, <<>>))

checkKey(key) ==
    IF key = NilBytes THEN "key is nil"
    ELSE IF Len(key) # keySize THEN "key is not 32 bytes long"
    ELSE ""

\* a checkValue that accepts the reserved value
checkValueAcceptsReserved(value) == IF value = NilBytes THEN "value is nil" ELSE ""

checkValue(value) ==
    IF value = NilBytes THEN "value is nil"
    ELSE IF value = deletedValue THEN "value corresponds to empty RLP string, whose usage is reserved"
    ELSE ""

wasDeleted(value) == value = deletedValue

getStatusFound == "FOUND"

getStatusNotFound == "NOT_FOUND"

getStatusFailed == "FAILED"

GetResult(value, status, err) == [value |-> value, status |-> status, err |-> err]

getFound(value) == GetResult(value, getStatusFound, "")

getNotFound == GetResult(NilBytes, getStatusNotFound, "")

getFailed(err) == GetResult(NilBytes, getStatusFailed, err)

getFailedOrNotFound(status, err) ==
    IF status = getStatusNotFound THEN getNotFound ELSE getFailed(err)

\* what get does with the result r of the get it called on a node below
getFromBelow(r) ==
    IF r.status # getStatusFound THEN getFailedOrNotFound(r.status, r.err)
    ELSE getFound(r.value)

\* the Value case of get
getValue(value) ==
    IF wasDeleted(value) THEN getNotFound ELSE getFound(value)

RECURSIVE get(_, _, _, _)
get(t, n, path, index) ==
    IF IsLive(n) /\ ~PrefixContainedIn(n, path, index) THEN getNotFound
    ELSE CASE n.kind = "Leaf" -> getFromBelow(getValue(n.Value))
           [] n.kind = "Full" ->
                LET Child(childRadixIndex) ==
                        IF childRadixIndex >= Len(path) \/ At(path, childRadixIndex) >= NumChildren
                        THEN getFailed("panic")
                        ELSE getFromBelow(get(t, n.Children[At(path, childRadixIndex)], path,
                                              childRadixIndex + 1))
                IN  Child(index + Len(n.Key))
           [] n.kind = "WithDeletedKeys" ->
                IF KeySetContains(n.DeletedKeys, path) THEN getNotFound
                ELSE getFromBelow(get(t, n.Node, path, index))
           [] n.kind = "Stored" ->
                LET Loaded(loaded) ==
                        IF loaded.err # "" THEN getFailed(loaded.err)
                        ELSE getFromBelow(getValue(loaded.n))
                IN  Loaded(LoadLatestValueNodeWithExactPath(t.storage, path, t.version - 1))
           [] OTHER -> getFailed("unsupported n type")

\* Get returns the pair (value, err); value is NilBytes when nothing is found
Get(t, key) ==
    LET Returned(r) == [value |-> r.value, err |-> r.err]
        Checked(err) ==
            IF err # "" THEN [value |-> NilBytes, err |-> err]
            ELSE Returned(get(t, t.root, KeybytesHex(key), 0))
    IN  Checked(checkKey(key))

(***************************************************************************)
(* replaceChild / loadChild / prependToKey                                 *)
(***************************************************************************)
\* a prependToKey that leaves the radix out of the new prefix
prependToKeyWithoutRadix(node, prefix, index, version) ==
    ReplacePrefix(node, prefix \o NodePrefix(node), version)

prependToKey(node, prefix, index, version) ==
    ReplacePrefix(node, prefix \o <<index>> \o NodePrefix(node), version)

loadChild(t, path, prefix, index, isLeaf, version) ==
    IF isLeaf
    THEN LoadLeafNodeWithExactPrefixAndVersion(t.storage, path \o prefix \o <<index>>, version)
    ELSE LoadNode(t.storage, path \o prefix \o <<index>>, version)

\* a replaceChild that keeps a branch with one child
replaceChildKeepsBranch(t, full, newChild, newChildRadix, path) ==
    Ok(NewFull(full.Key, ChildrenReplace(full.Children, newChildRadix, newChild), t.version))

replaceChild(t, full, newChild, newChildRadix, path) ==
    LET Prepended(loaded, childRadix) ==
            IF loaded.err # "" THEN Fail(loaded.err)
            ELSE Ok(prependToKey(loaded.n, full.Key, childRadix, t.version))
        Only(child, childRadix) ==
            CASE IsLive(child) -> Ok(prependToKey(child, full.Key, childRadix, t.version))
              [] child.kind = "Stored" ->
                    Prepended(loadChild(t, path, full.Key, childRadix, child.IsLeaf, child.version),
                              childRadix)
              [] OTHER -> Fail("replaceChild: unsupported node type")
        Replaced(updatedChildren, last) ==
            IF last.onlyChild THEN Only(updatedChildren[last.index], last.index)
            ELSE Ok(NewFull(full.Key, updatedChildren, t.version))
        Updated(updatedChildren) == Replaced(updatedChildren, LastLivingChild(updatedChildren))
    IN  Updated(ChildrenReplace(full.Children, newChildRadix, newChild))

(***************************************************************************)
(* Update                                                                  *)
(***************************************************************************)
updateStatusUpdated == "UPDATED"

updateStatusUnchanged == "UNCHANGED"

updateStatusFailed == "FAILED"

UpdateResult(n, status, err) == [n |-> n, status |-> status, err |-> err]

updateUpdated(after) == UpdateResult(after, updateStatusUpdated, "")

updateNotUpdated == UpdateResult(NewNil, updateStatusUnchanged, "")

updateFailed(err) == UpdateResult(NewNil, updateStatusFailed, err)

updateFailedOrNotUpdated(status, err) ==
    IF status = updateStatusUnchanged THEN updateNotUpdated ELSE updateFailed(err)

loadForUpdate(t, n, path) ==
    IF n.IsLeaf THEN LoadLeafNodeWithExactPrefixAndVersion(t.storage, path, n.version)
    ELSE LoadNode(t.storage, path, n.version)

RECURSIVE update(_, _, _, _, _)
update(t, before, path, index, value) ==
    IF IsLive(before) /\ ~PrefixContainedIn(before, path, index)
    THEN updateUpdated(AddSibling(before, From(path, index), path, value, t.version))
    ELSE CASE before.kind = "Leaf" ->
                IF HasSameValue(before, value) THEN updateNotUpdated
                ELSE updateUpdated(ReplaceValue(before, value, t.version))
           [] before.kind = "Full" ->
                LET Replaced(after) ==
                        IF after.err # "" THEN updateFailed(after.err) ELSE updateUpdated(after.n)
                    Below(r, childRadix) ==
                        IF r.status # updateStatusUpdated
                        THEN updateFailedOrNotUpdated(r.status, r.err)
                        ELSE Replaced(replaceChild(t, before, r.n, childRadix, Upto(path, index)))
                    Child(childRadixIndex) ==
                        IF childRadixIndex >= Len(path) \/ At(path, childRadixIndex) >= NumChildren
                        THEN updateFailed("panic")
                        ELSE Below(update(t, before.Children[At(path, childRadixIndex)], path,
                                          childRadixIndex + 1, value),
                                   At(path, childRadixIndex))
                IN  Child(index + Len(before.Key))
           [] before.kind = "WithDeletedKeys" ->
                LET Below(r) ==
                        IF r.status # updateStatusUpdated
                        THEN updateFailedOrNotUpdated(r.status, r.err)
                        ELSE IF KeySetContains(before.DeletedKeys, path)
                             THEN updateUpdated(NewWithDeletedKeys(r.n, KeySetRemove(before.DeletedKeys, path)))
                             ELSE updateUpdated(NewWithDeletedKeys(r.n, before.DeletedKeys))
                IN  Below(update(t, before.Node, path, index, value))
           [] before.kind = "Stored" ->
                LET Below(r) ==
                        IF r.status # updateStatusUpdated
                        THEN updateFailedOrNotUpdated(r.status, r.err)
                        ELSE updateUpdated(r.n)
                    Checked(loaded, hash) ==
                        IF hash.err # "" THEN updateFailed("panic")
                        ELSE IF hash.hash # before.Hash THEN updateFailed("panic")
                        ELSE Below(update(t, loaded.n, path, index, value))
                    Loaded(loaded) ==
                        IF loaded.err # "" THEN updateFailed(loaded.err)
                        ELSE Checked(loaded, Finalize(t.storage, loaded.n, path, doNotStore, doNotForceHash))
                IN  Loaded(loadForUpdate(t, before, Upto(path, index)))
           [] OTHER -> updateFailed("unsupported node type")

\* an Update that replaces the root whatever the status of the recursion
UpdateReplacesRootOnFailure(t, key, value) ==
    LET Returned(r) == [t |-> [t EXCEPT !.root = r.n], err |-> r.err]
        Checked(keyErr, valueErr) ==
            IF keyErr # "" THEN [t |-> t, err |-> keyErr]
            ELSE IF valueErr # "" THEN [t |-> t, err |-> valueErr]
            ELSE Returned(update(t, t.root, KeybytesHex(key), 0, value))
    IN  Checked(checkKey(key), checkValue(value))

\* Update returns the trie after the call and the error
Update(t, key, value) ==
    LET Returned(r) ==
            [t   |-> IF r.status = updateStatusUpdated THEN [t EXCEPT !.root = r.n] ELSE t,
             err |-> r.err]
        Checked(keyErr, valueErr) ==
            IF keyErr # "" THEN [t |-> t, err |-> keyErr]
            ELSE IF valueErr # "" THEN [t |-> t, err |-> valueErr]
            ELSE Returned(update(t, t.root, KeybytesHex(key), 0, value))
    IN  Checked(checkKey(key), checkValue(value))

(***************************************************************************)
(* Remove                                                                  *)
(***************************************************************************)
removeStatusRemoved == "REMOVED"

removeStatusNotRemoved == "NOT_REMOVED"

removeStatusFailed == "FAILED"

RemoveResult(n, deleted, status, err) ==
    [n |-> n, deleted |-> deleted, status |-> status, err |-> err]

removeRemoved(after, deletedKeys) == RemoveResult(after, deletedKeys, removeStatusRemoved, "")

\* a "not removed" result that reports an empty subtrie as removed
removeNotRemovedAsRemoved == RemoveResult(NewNil, noDeletedKeys, removeStatusRemoved, "")

removeNotRemoved == RemoveResult(NewNil, noDeletedKeys, removeStatusNotRemoved, "")

removeFailed(err) == RemoveResult(NewNil, noDeletedKeys, removeStatusFailed, err)

removeFailedOrNotRemoved(status, err) ==
    IF status = removeStatusNotRemoved THEN removeNotRemoved ELSE removeFailed(err)

loadForRemove(t, n, path, index) ==
    IF n.IsLeaf THEN LoadLeafNodeWithExactPrefixAndVersion(t.storage, Upto(path, index), n.version)
    ELSE LoadNode(t.storage, Upto(path, index), n.version)

RECURSIVE remove(_, _, _, _)
remove(t, before, path, index) ==
    IF IsLive(before) /\ ~PrefixContainedIn(before, path, index) THEN removeNotRemoved
    ELSE CASE before.kind = "Leaf" ->
                IF wasDeleted(before.Value) THEN removeFailed("panic")
                ELSE removeRemoved(NewNil, NewKeySet(path, t.version))
           [] before.kind = "Full" ->
                LET Replaced(after, deletedKeys) ==
                        IF after.err # "" THEN removeFailed(after.err)
                        ELSE IF KeySetLen(deletedKeys) = 0
                             THEN removeRemoved(after.n, noDeletedKeys)
                        ELSE removeRemoved(NewWithDeletedKeys(after.n, deletedKeys), noDeletedKeys)
                    Below(r, childRadix) ==
                        IF r.status # removeStatusRemoved
                        THEN removeFailedOrNotRemoved(r.status, r.err)
                        ELSE Replaced(replaceChild(t, before, r.n, childRadix, Upto(path, index)),
                                      r.deleted)
                    Child(childRadixIndex) ==
                        IF childRadixIndex >= Len(path) \/ At(path, childRadixIndex) >= NumChildren
                        THEN removeFailed("panic")
                        ELSE Below(remove(t, before.Children[At(path, childRadixIndex)], path,
                                          childRadixIndex + 1),
                                   At(path, childRadixIndex))
                IN  Child(index + Len(before.Key))
           [] before.kind = "WithDeletedKeys" ->
                LET Merged(after, allDeletedKeys) ==
                        IF IsNil(after) THEN removeRemoved(after, allDeletedKeys)
                        ELSE removeRemoved(NewWithDeletedKeys(after, allDeletedKeys), noDeletedKeys)
                    Below(r) ==
                        IF r.status # removeStatusRemoved
                        THEN removeFailedOrNotRemoved(r.status, r.err)
                        ELSE Merged(r.n, KeySetMerge(before.DeletedKeys, r.deleted))
                IN  IF KeySetContains(before.DeletedKeys, path) THEN removeNotRemoved
                    ELSE Below(remove(t, before.Node, path, index))
           [] before.kind = "Stored" ->
                LET Below(r) ==
                        IF r.status # removeStatusRemoved
                        THEN removeFailedOrNotRemoved(r.status, r.err)
                        ELSE removeRemoved(r.n, r.deleted)
                    Checked(loaded, hash) ==
                        IF hash.err # "" THEN removeFailed("panic")
                        ELSE IF hash.hash # before.Hash THEN removeFailed("panic")
                        ELSE Below(remove(t, loaded.n, path, index))
                    Loaded(loaded) ==
                        IF loaded.err # "" THEN removeFailed(loaded.err)
                        ELSE Checked(loaded, Finalize(t.storage, loaded.n, From(path, index),
                                                      doNotStore, doNotForceHash))
                IN  Loaded(loadForRemove(t, before, path, index))
           [] OTHER -> removeFailed("unsupported before type")

\* Remove returns the trie after the call and the error
Remove(t, key) ==
    LET Returned(r) ==
            [t   |-> IF r.status # removeStatusRemoved THEN t
                     ELSE IF IsNil(r.n) /\ KeySetLen(r.deleted) > 0
                          THEN [t EXCEPT !.root = NewWithDeletedKeys(r.n, r.deleted)]
                     ELSE [t EXCEPT !.root = r.n],
             err |-> r.err]
        Checked(keyErr) ==
            IF keyErr # "" THEN [t |-> t, err |-> keyErr]
            ELSE Returned(remove(t, t.root, KeybytesHex(key), 0))
    IN  Checked(checkKey(key))

(***************************************************************************)
(* Construction, Hash, Commit                                              *)
(***************************************************************************)
NewEmptyPrefixedLudicrousTrie(prefix, db, version) ==
    Trie(version + 1, NewNil, NewPrefixedCollection(prefix, db))

\* a constructor that does not compare the hash of the loaded root
NewPrefixedLudicrousTrieUnverified(prefix, db, hash, version) ==
    LET Loaded(trie, root) ==
            IF hash # emptyRoot /\ root.err # "" THEN [t |-> NilTrie, err |-> root.err]
            ELSE [t |-> IF hash # emptyRoot THEN [trie EXCEPT !.root = root.n] ELSE trie,
                  err |-> ""]
        Empty(trie) == Loaded(trie, LoadNode(trie.storage, rootPath, version))
    IN  Empty(NewEmptyPrefixedLudicrousTrie(prefix, db, version))

\* returns [t, err]; t is NilTrie when err # ""
NewPrefixedLudicrousTrie(prefix, db, hash, version) ==
    LET Verified(trie, rootHash) ==
            IF rootHash.err # "" THEN [t |-> NilTrie, err |-> rootHash.err]
            ELSE IF rootHash.hash # hash
                 THEN [t |-> NilTrie,
                       err |-> "requested root does not match root Hash stored for Version"]
            ELSE [t |-> trie, err |-> ""]
        Rooted(trie) ==
            Verified(trie, Finalize(trie.storage, trie.root, rootPath, doNotStore, doForceHash))
        Loaded(trie, root) ==
            IF hash # emptyRoot /\ root.err # "" THEN [t |-> NilTrie, err |-> root.err]
            ELSE Rooted(IF hash # emptyRoot THEN [trie EXCEPT !.root = root.n] ELSE trie)
        Empty(trie) == Loaded(trie, LoadNode(trie.storage, rootPath, version))
    IN  Empty(NewEmptyPrefixedLudicrousTrie(prefix, db, version))

NewPrefixedLudicrousTrieAtLatestVersion(prefix, db, hash, version) ==
    LET Verified(trie, rootHash) ==
            IF rootHash.err # "" THEN [t |-> NilTrie, err |-> rootHash.err]
            ELSE IF rootHash.hash # hash
                 THEN [t |-> NilTrie, err |-> "requested root does not match root hash"]
            ELSE [t |-> trie, err |-> ""]
        Rooted(trie) ==
            Verified(trie, Finalize(trie.storage, trie.root, rootPath, doNotStore, doForceHash))
        Loaded(trie, root) ==
            IF hash # emptyRoot /\ root.err # "" THEN [t |-> NilTrie, err |-> root.err]
            ELSE Rooted(IF hash # emptyRoot THEN [trie EXCEPT !.root = root.n] ELSE trie)
        Empty(trie) == Loaded(trie, LoadLatestRootNode(trie.storage, version))
    IN  Empty(NewEmptyPrefixedLudicrousTrie(prefix, db, version))

noPrefix == <<>>

NewCollection(db) == NewPrefixedCollection(noPrefix, db)

NewEmptyLudicrousTrie(db, version) == Trie(version + 1, NewNil, NewCollection(db))

NewLudicrousTrie(db, hash, version) == NewPrefixedLudicrousTrie(noPrefix, db, hash, version)

\* common.Hash{}: the hash of 32 zero bytes, the digest of no item
zeroHash == [t |-> "hash", b |-> <<>>, items |-> <<>>]

accountPrefix == <<121>>

\* a storage prefix that leaves the address hash out
storagePrefixWithoutAddress(addrHash) == <<120>>

storagePrefix(addrHash) == <<120>> \o addrHash

\* turboTrieStateDB.OpenTrie: returns [t, err]
OpenTrie(db, root, version) ==
    IF root = zeroHash
    THEN [t |-> NewEmptyPrefixedLudicrousTrie(accountPrefix, db, version), err |-> ""]
    ELSE NewPrefixedLudicrousTrie(accountPrefix, db, root, version)

\* turboTrieStateDB.OpenStorageTrie: returns [t, err]
OpenStorageTrie(db, addrHash, root, version) ==
    IF root = zeroHash
    THEN [t |-> NewEmptyPrefixedLudicrousTrie(storagePrefix(addrHash), db, version), err |-> ""]
    ELSE NewPrefixedLudicrousTrieAtLatestVersion(storagePrefix(addrHash), db, root, version)

Hash(t) ==
    LET Returned(r) == [hash |-> r.hash, err |-> r.err]
    IN  Returned(Finalize(t.storage, t.root, <<>>, doNotStore, doForceHash))

\* a Commit that leaves the version counter alone
CommitKeepsVersion(t) ==
    LET Returned(r) ==
            [t    |-> [t EXCEPT !.storage.db = r.db],
             hash |-> r.hash,
             err  |-> r.err]
    IN  Returned(Finalize(t.storage, t.root, <<>>, doStore, doForceHash))

\* Commit returns the trie after the call (version already advanced, the
\* batch written when finalization succeeded), the root hash and the error
Commit(t) ==
    LET Returned(r) ==
            [t    |-> [t EXCEPT !.version = t.version + 1, !.storage.db = r.db],
             hash |-> r.hash,
             err  |-> r.err]
    IN  Returned(Finalize(t.storage, t.root, <<>>, doStore, doForceHash))

\* Commit on a backing store whose batch.Write returns an error: the version
\* is advanced before finalization starts, Finalize returns the zero hash and
\* the wrapped error, and no put of the batch reaches the store
CommitOnFailedWrite(t) ==
    LET Returned(r) ==
            [t    |-> [t EXCEPT !.version = t.version + 1],
             hash |-> IF r.err = "" THEN zeroHash ELSE r.hash,
             err  |-> IF r.err = "" THEN "error writing batch" ELSE r.err]
    IN  Returned(Finalize(t.storage, t.root, <<>>, doStore, doForceHash))

(***************************************************************************)
(* The state machine: one trie handle over one backing store, driven by a  *)
(* client that calls Get / Update / Remove / Hash / Commit and opens the   *)
(* trie again from the store.                                              *)
(***************************************************************************)
\* bounds of the model
NumKeys == 3

NumValues == 2

MaxVersion == 3

MaxMutations == 4

\* the collection prefix of the account trie ('y')
TriePrefix == <<121>>

\* a 32-byte key with first byte hi and last byte lo
KeyOf(hi, lo) == <<hi>> \o [i \in 1..(keySize - 2) |-> 0] \o <<lo>>

AllKeys == <<KeyOf(0, 0), KeyOf(0, 1), KeyOf(16, 0), KeyOf(0, 16), KeyOf(1, 0)>>

Keys == {AllKeys[i] : i \in 1..MinOf({NumKeys, Len(AllKeys)})}

Values == {<<v>> : v \in 1..NumValues}

\* the (key, value) pairs the client writes: every key with the first
\* value, the first key with every value
Writes == {w \in Keys \X Values : w[2] = <<1>> \/ w[1] = AllKeys[1]}

\* keys and values the argument checks reject
BadKeys == {NilBytes, [i \in 1..(keySize - 1) |-> 0], [i \in 1..(keySize + 1) |-> 0]}

BadValues == {NilBytes, deletedValue}

VARIABLES
    version,   \* LudicrousTrie.version of the handle
    root,      \* LudicrousTrie.root of the handle
    db,        \* the backing store shared by every handle
    commits,   \* history: the successful Commits, oldest first
    mutations, \* how many calls have replaced the root so far
    others,    \* the handles of the other tries that share the backing store
    drawn      \* the arguments and the results of the storage key encoder

\* what the operations of the account trie handle leave alone
aux == <<others, drawn>>

vars == <<version, root, db, commits, mutations, others, drawn>>

\* no other trie shares the store
NoOthers == <<>>

\* no storage key has been encoded
NothingDrawn == <<>>

\* a handle as the engine sees it
Handle(v, r, d) == Trie(v, r, NewPrefixedCollection(TriePrefix, d))

T == Handle(version, root, db)

\* what Get returns on handle t for every key of the model
Reads(t) == [k \in Keys |-> Get(t, k)]

Init ==
    \E t \in {NewEmptyPrefixedLudicrousTrie(TriePrefix, <<>>, 0)} :
        /\ version = t.version
        /\ root = t.root
        /\ db = t.storage.db
        /\ commits = <<>>
        /\ mutations = 0
        /\ others = NoOthers
        /\ drawn = NothingDrawn

\* Get and Hash return a result and leave the handle and the store as they are
GetOp(key) ==
    \E r \in {Get(T, key)} :
        /\ r.err \in {"", checkKey(key)}
        /\ UNCHANGED vars

HashOp ==
    \E r \in {Hash(T)} :
        /\ r.err = ""
        /\ UNCHANGED vars

UpdateOp(key, value) ==
    \E r \in {Update(T, key, value)} :
        /\ mutations < MaxMutations
        /\ root' = r.t.root
        /\ version' = r.t.version
        /\ db' = r.t.storage.db
        /\ mutations' = IF r.t.root # root THEN mutations + 1 ELSE mutations
        /\ UNCHANGED <<commits, aux>>

RemoveOp(key) ==
    \E r \in {Remove(T, key)} :
        /\ mutations < MaxMutations
        /\ root' = r.t.root
        /\ version' = r.t.version
        /\ db' = r.t.storage.db
        /\ mutations' = IF r.t.root # root THEN mutations + 1 ELSE mutations
        /\ UNCHANGED <<commits, aux>>

\* a successful Commit is recorded with the version it committed, the hash
\* it returned and what the handle read at that moment
CommitOp ==
    \E r \in {Commit(T)} :
        /\ version <= MaxVersion
        /\ root' = r.t.root
        /\ version' = r.t.version
        /\ db' = r.t.storage.db
        /\ commits' = IF r.err = ""
                      THEN Append(commits, [version |-> version, hash |-> r.hash, reads |-> Reads(T)])
                      ELSE commits
        /\ UNCHANGED <<mutations, aux>>

LatestVersion == IF commits = <<>> THEN 0 ELSE commits[Len(commits)].version

LatestHash == IF commits = <<>> THEN emptyRoot ELSE commits[Len(commits)].hash

\* NewPrefixedLudicrousTrie(prefix, db, hash, v).  The history of the store
\* is linear: the new handle replaces the working handle when it was opened
\* at the hash and the version of the latest Commit; a handle at any other
\* hash or version is read and dropped, a failed call returns no handle.
OpenOp(hash, v) ==
    \E r \in {NewPrefixedLudicrousTrie(TriePrefix, db, hash, v)} :
        /\ IF r.err = "" /\ v = LatestVersion /\ hash = LatestHash
           THEN root' = r.t.root /\ version' = r.t.version
           ELSE UNCHANGED <<root, version>>
        /\ UNCHANGED <<db, commits, mutations, aux>>

Next ==
    \/ \E k \in Keys \cup BadKeys : GetOp(k)
    \/ \E w \in Writes : UpdateOp(w[1], w[2])
    \/ \E k \in BadKeys, v \in Values : UpdateOp(k, v)
    \/ \E k \in Keys, v \in BadValues : UpdateOp(k, v)
    \/ \E k \in Keys \cup BadKeys : RemoveOp(k)
    \/ HashOp
    \/ CommitOp
    \/ \E i, j \in DOMAIN commits : OpenOp(commits[i].hash, commits[j].version)

Spec == Init /\ [][Next]_vars

(***************************************************************************)
(* Observations used by the properties                                     *)
(***************************************************************************)
\* Get found nothing: nil value, nil error
Nothing == [value |-> NilBytes, err |-> ""]

\* Get found the value v
Found(v) == [value |-> v, err |-> ""]

\* some node of kind k is reachable from n in memory
RECURSIVE HasKind(_, _)
HasKind(n, k) ==
    \/ n.kind = k
    \/ n.kind = "WithDeletedKeys" /\ HasKind(n.Node, k)
    \/ n.kind = "Full" /\ \E i \in Radixes : HasKind(n.Children[i], k)

\* the tombstones <<path, version>> held by the nodes reachable from n
RECURSIVE Tombstones(_)
Tombstones(n) ==
    CASE n.kind = "WithDeletedKeys" ->
            {<<p, n.DeletedKeys[p]>> : p \in DOMAIN n.DeletedKeys} \cup Tombstones(n.Node)
      [] n.kind = "Full" -> UNION {Tombstones(n.Children[i]) : i \in Radixes}
      [] OTHER -> {}

\* what the latest successful Commit read for key k (nothing before the first)
Committed(k) == IF commits = <<>> THEN Nothing ELSE commits[Len(commits)].reads[k]

(***************************************************************************)
(* C1: in every reachable state, also on a handle opened from the store    *)
(* whose children are Stored placeholders, a successful Update(k, v) with  *)
(* a 32-byte key and an accepted value makes Get(k) return exactly v and   *)
(* leaves what Get returns for every other key as it was.                  *)
(***************************************************************************)
C1_UpdateThenGet ==
    \A k \in Keys, v \in Values :
        \E r \in {Update(T, k, v)} :
            r.err = "" =>
                /\ Get(r.t, k) = Found(v)
                /\ \A o \in Keys \ {k} : Get(r.t, o) = Get(T, o)

\* an Update has replaced a committed value on a handle opened from the
\* store: Stored placeholders remain, and the key reads a value that the
\* latest Commit did not read
C1_Witness ==
    /\ commits # <<>>
    /\ HasKind(root, "Stored")
    /\ \E k \in Keys :
        /\ Committed(k).value \in Values
        /\ Get(T, k).value \in Values
        /\ Get(T, k) # Committed(k)

(***************************************************************************)
(* C2: in every reachable state a successful Remove(k) makes Get(k) return *)
(* nothing (nil value, nil error), also when the value was written by an   *)
(* earlier Commit and is reachable only through a Stored placeholder, and  *)
(* leaves what Get returns for every other key as it was.                  *)
(***************************************************************************)
C2_RemoveThenGet ==
    \A k \in Keys :
        \E r \in {Remove(T, k)} :
            r.err = "" =>
                /\ Get(r.t, k) = Nothing
                /\ \A o \in Keys \ {k} : Get(r.t, o) = Get(T, o)

\* a Remove has acted in the in-progress version on a handle opened from
\* the store: its tombstone is in memory, the key was committed with a
\* value and now reads nothing, and Stored placeholders remain
C2_Witness ==
    /\ HasKind(root, "Stored")
    /\ \E k \in Keys :
        /\ Committed(k).value \in Values
        /\ <<KeybytesHex(k), version>> \in Tombstones(root)
        /\ Get(T, k) = Nothing

(***************************************************************************)
(* C3: Remove(k) of a 32-byte key that is not present returns no error and *)
(* leaves the trie as it was: the root node with its tombstone sets, the   *)
(* in-progress version and the value of Hash().                            *)
(***************************************************************************)
C3_RemoveAbsentIsNoOp ==
    \A k \in Keys :
        Get(T, k) = Nothing =>
            \E r \in {Remove(T, k)} :
                /\ r.err = ""
                /\ r.t.root = root
                /\ Tombstones(r.t.root) = Tombstones(root)
                /\ r.t.version = version
                /\ Hash(r.t) = Hash(T)

\* an absent key is removed from a trie that holds other keys, tombstones
\* and Stored placeholders
C3_Witness ==
    /\ HasKind(root, "Stored")
    /\ Tombstones(root) # {}
    /\ \E k, o \in Keys :
        /\ Get(T, k) = Nothing
        /\ Get(T, o).value \in Values
        /\ Remove(T, k).err = ""

(***************************************************************************)
(* The classical hexary Merkle-Patricia trie (the reference trie package): *)
(* leaf [compact(rest of the path, terminated), value], 17-slot full node  *)
(* with an empty value slot, extension [compact(shared nibbles), child], a *)
(* child replaced by its hash when its encoding has 32 bytes or more.      *)
(***************************************************************************)
\* the pairs <<hex path without terminator, value>> a handle reads
Pairs(t) ==
    {<<Upto(KeybytesHex(k), 2 * keySize), Get(t, k).value>> :
        k \in {x \in Keys : Get(t, x).err = "" /\ Get(t, x).value # NilBytes}}

\* number of nibbles after position depth that all the paths share
RECURSIVE RefShared(_, _)
RefShared(pairs, depth) ==
    IF \E p, q \in pairs : p[1][depth + 1] # q[1][depth + 1] THEN 0
    ELSE 1 + RefShared(pairs, depth + 1)

RefChild(node) == IF RlpLen(node) >= HashLength THEN Keccak256Hash(node) ELSE node

\* the path of one of the pairs
RefPath(pairs) == (CHOOSE x \in pairs : TRUE)[1]

\* the node of the pairs, which agree on their first depth nibbles
RECURSIVE RefNode(_, _)
RefNode(pairs, depth) ==
    IF Cardinality(pairs) = 1
    THEN LET p == CHOOSE x \in pairs : TRUE
         IN  RList(<<RStr(HexCompact(From(p[1], depth) \o <<hexEncodingTerm>>)), RStr(p[2])>>)
    ELSE LET shared == RefShared(pairs, depth)
             at     == depth + shared
             Slot(i) ==
                 LET sub == {p \in pairs : p[1][at + 1] = i}
                 IN  IF sub = {} THEN RStr(<<>>) ELSE RefChild(RefNode(sub, at + 1))
             full   == RList([i \in 1..numChildrenInRefFullNode |->
                                IF i = valueChildIndexInRefFullNode + 1 THEN RStr(<<>>)
                                ELSE Slot(i - 1)])
         IN  IF shared = 0 THEN full
             ELSE RList(<<RStr(HexCompact(SubSeq(RefPath(pairs), depth + 1, at))), RefChild(full)>>)

RefRoot(pairs) == IF pairs = {} THEN emptyRoot ELSE Keccak256Hash(RefNode(pairs, 0))

\* no Remove has left a tombstone wrapper and no node is a placeholder of
\* the store: the trie in memory was built by Update alone
BuiltByUpdates == ~HasKind(root, "WithDeletedKeys") /\ ~HasKind(root, "Stored")

(***************************************************************************)
(* C4: for every set of pairs inserted by Update, in whatever order, Hash()*)
(* returns the root of the classical hexary Merkle-Patricia trie over the  *)
(* same pairs: 17-slot full nodes with an empty 17th slot, an extension    *)
(* around a branch whose prefix is not empty, a child replaced by its hash *)
(* when it encodes to 32 bytes or more.                                    *)
(***************************************************************************)
C4_HashIsClassicalRoot ==
    BuiltByUpdates => Hash(T) = [hash |-> RefRoot(Pairs(T)), err |-> ""]

\* three keys were inserted: the root branch has an empty prefix, a child
\* branch has a prefix (an extension), a leaf is hashed and leaves are inline
C4_Witness ==
    /\ BuiltByUpdates
    /\ Cardinality(Pairs(T)) = 3
    /\ root.kind = "Full"
    /\ root.Key = <<>>
    /\ \E i, j \in Radixes :
        /\ root.Children[i].kind = "Full"
        /\ root.Children[i].Key # <<>>
        /\ root.Children[j].kind = "Leaf"

\* the handle that Update builds from nothing for the pairs t reads,
\* inserting in the order of AllKeys
RECURSIVE InsertAll(_, _, _)
InsertAll(t, reads, i) ==
    IF i > Len(AllKeys) THEN t
    ELSE IF AllKeys[i] \in Keys /\ reads[AllKeys[i]].value # NilBytes
         THEN InsertAll(Update(t, AllKeys[i], reads[AllKeys[i]].value).t, reads, i + 1)
         ELSE InsertAll(t, reads, i + 1)

Rebuilt == InsertAll(NewEmptyPrefixedLudicrousTrie(TriePrefix, <<>>, 0), Reads(T), 1)

(***************************************************************************)
(* C5: Hash() depends on the current key-to-value map only: after any      *)
(* sequence of Update, Remove and Commit it equals the hash of the trie    *)
(* that inserts the current pairs into an empty one, and when every key    *)
(* has been removed it is the empty root.                                  *)
(***************************************************************************)
C5_HashIsFunctionOfMap ==
    /\ Hash(T) = Hash(Rebuilt)
    /\ Pairs(T) = {} => Hash(T) = [hash |-> emptyRoot, err |-> ""]

\* a key was removed before a Commit and a value was written after it: the
\* trie in memory holds a tombstone of an earlier version and reads a value
\* that the latest Commit did not read
C5_Witness ==
    /\ commits # <<>>
    /\ \E a \in Tombstones(root) : a[2] < version
    /\ \E k \in Keys : Get(T, k).value \in Values /\ Get(T, k) # Committed(k)

\* the handle opened at the hash and the version of the i-th Commit
Reopened(i) == NewPrefixedLudicrousTrie(TriePrefix, db, commits[i].hash, commits[i].version)

(***************************************************************************)
(* C6: after Commits at increasing versions V1 < V2 < ..., a trie opened   *)
(* at (root of Vi, Vi) reads, for every key, exactly what the trie read    *)
(* when Vi was committed: a write or a removal of a later version is not   *)
(* visible, a removal made at or before Vi is.                             *)
(***************************************************************************)
C6_SnapshotReads ==
    \A i \in DOMAIN commits :
        \E r \in {Reopened(i)} :
            r.err = "" => Reads(r.t) = commits[i].reads

\* a snapshot that is not the latest one opens, and a key it reads was
\* overwritten or removed by a later Commit, or written by a later Commit
C6_Witness ==
    \E i, j \in DOMAIN commits :
        /\ i < j
        /\ Reopened(i).err = ""
        /\ HasKind(Reopened(i).t.root, "Stored")
        /\ \E k \in Keys :
            /\ commits[i].reads[k] # commits[j].reads[k]
            /\ commits[i].reads[k].value \in Values
        /\ \E k \in Keys :
            /\ commits[i].reads[k] = Nothing
            /\ commits[j].reads[k].value \in Values

(***************************************************************************)
(* C7: for every successful Commit, whose in-progress version before the   *)
(* call was V and whose returned hash is h, opening a trie at (h, V)       *)
(* succeeds and reads the committed value of every key.                    *)
(***************************************************************************)
C7_CommittedVersionOpens ==
    \A i \in DOMAIN commits :
        \E r \in {Reopened(i)} :
            r.err = "" /\ Reads(r.t) = commits[i].reads

(***************************************************************************)
(* C8: a nil key or a key that is not 32 bytes long makes Get, Update and  *)
(* Remove return an error, a nil value or the value 0x80 makes Update      *)
(* return an error, and the failed call leaves the root, the in-progress   *)
(* version and the store as they were.                                     *)
(***************************************************************************)
C8_BadArgumentsRejected ==
    /\ \A k \in BadKeys :
        /\ Get(T, k).err # "" /\ Get(T, k).value = NilBytes
        /\ Remove(T, k).err # "" /\ Remove(T, k).t = T
        /\ \A v \in Values \cup BadValues :
            Update(T, k, v).err # "" /\ Update(T, k, v).t = T
    /\ \A k \in Keys, v \in BadValues :
        Update(T, k, v).err # "" /\ Update(T, k, v).t = T

\* the bad arguments are refused by a trie that holds committed and
\* uncommitted content, for a key that is stored
C8_Witness ==
    /\ db # <<>>
    /\ HasKind(root, "Stored")
    /\ \E k \in Keys : Get(T, k).value \in Values /\ Update(T, k, deletedValue).err # ""
    /\ \E k \in BadKeys : Remove(T, k).err # ""

\* the hashes and the versions a caller may ask for
AskedHashes == {commits[i].hash : i \in DOMAIN commits} \cup {Keccak256Hash(RStr(<<1>>))}

AskedVersions == 0..(MaxVersion + 2)

\* the root record of version v, when there is one
RootRecord(v) == LoadNode(T.storage, rootPath, v)

NoRootRecord(v) == maybeNonValuePrefix(T.storage, NewKey(rootPath, v)) \notin DOMAIN db

RootRecordHash(v) == Finalize(T.storage, RootRecord(v).n, rootPath, doNotStore, doForceHash).hash

(***************************************************************************)
(* C9: opening a trie at (hash, version) returns an error and no trie when *)
(* the hash is not the empty root and either there is no root record at    *)
(* exactly that version or the root record of that version finalizes to a  *)
(* different hash.                                                         *)
(***************************************************************************)
C9_OpenRejectsUnknownRoot ==
    \A h \in AskedHashes, v \in AskedVersions :
        (h # emptyRoot /\ (NoRootRecord(v) \/ RootRecordHash(v) # h)) =>
            \E r \in {NewPrefixedLudicrousTrie(TriePrefix, db, h, v)} :
                r.err # "" /\ r.t = NilTrie

\* a committed hash is refused at a version without a root record and at a
\* version whose root record has another hash
C9_Witness ==
    \E h \in AskedHashes, v, w \in AskedVersions :
        /\ h # emptyRoot
        /\ NoRootRecord(v)
        /\ NewPrefixedLudicrousTrie(TriePrefix, db, h, v).err # ""
        /\ ~NoRootRecord(w)
        /\ RootRecordHash(w) # h
        /\ NewPrefixedLudicrousTrie(TriePrefix, db, h, w).err # ""
        /\ \E x \in AskedVersions : NewPrefixedLudicrousTrie(TriePrefix, db, h, x).err = ""

\* the branches reachable in memory from n, each with the path of its place
RECURSIVE Branches(_, _)
Branches(n, path) ==
    CASE n.kind = "WithDeletedKeys" -> Branches(n.Node, path)
      [] n.kind = "Full" ->
            {[node |-> n, path |-> path]}
            \cup UNION {Branches(n.Children[i], path \o n.Key \o <<i>>) : i \in Radixes}
      [] OTHER -> {}

Living(full) == {i \in Radixes : ~IsNil(full.Children[i])}

\* the child at radix i of the branch b, loaded when it is a placeholder
LivingChild(b, i) ==
    IF b.node.Children[i].kind = "Stored"
    THEN loadChild(T, b.path, b.node.Key, i, b.node.Children[i].IsLeaf,
                   b.node.Children[i].version).n
    ELSE b.node.Children[i]

(***************************************************************************)
(* C10: after any sequence of successful Update and Remove calls every     *)
(* branch reachable from the root in memory has at least two living        *)
(* children, and a branch that is left with one living child is replaced   *)
(* by that child, whose prefix becomes the prefix of the branch, then the  *)
(* radix of the child, then the prefix the child had.                      *)
(***************************************************************************)
C10_BranchesHaveTwoChildren ==
    \A b \in Branches(root, <<>>) :
        /\ Cardinality(Living(b.node)) >= 2
        /\ Cardinality(Living(b.node)) = 2 =>
            \A gone \in Living(b.node) : \A kept \in Living(b.node) \ {gone} :
                \E r \in {replaceChild(T, b.node, NewNil, gone, b.path)} :
                    r.err = "" =>
                        /\ r.n = ReplacePrefix(LivingChild(b, kept),
                                               b.node.Key \o <<kept>>
                                                 \o NodePrefix(LivingChild(b, kept)),
                                               version)
                        /\ NodePrefix(r.n) = b.node.Key \o <<kept>>
                                               \o NodePrefix(LivingChild(b, kept))

\* a Remove collapses the root branch of a handle opened from the store:
\* the child that is kept is a placeholder, it is loaded and becomes the
\* root with the whole path as its prefix, under the tombstone of the key
C10_Witness ==
    /\ root.kind = "Full"
    /\ Cardinality(Living(root)) = 2
    /\ \A i \in Living(root) : root.Children[i].kind = "Stored"
    /\ \E k \in Keys :
        /\ Remove(T, k).err = ""
        /\ Remove(T, k).t.root.kind = "WithDeletedKeys"
        /\ Remove(T, k).t.root.Node.kind = "Leaf"
        /\ Len(Remove(T, k).t.root.Node.Key) = hexEncodingKeySize
        /\ Branches(Remove(T, k).t.root, <<>>) = {}

(***************************************************************************)
(* C11: Update(k, v) on a trie in which Get(k) already returns v reports   *)
(* UNCHANGED and does not replace the root: the root node with its node    *)
(* versions and tombstone sets, the in-progress version, the store and     *)
(* Hash() are what they were, also when the leaf of k is behind a Stored   *)
(* placeholder or under a node with tombstones.                            *)
(***************************************************************************)
C11_SameValueUpdateIsUnchanged ==
    \A k \in Keys, v \in Values :
        Get(T, k) = Found(v) =>
            \E r \in {Update(T, k, v)} :
                /\ update(T, root, KeybytesHex(k), 0, v).status = updateStatusUnchanged
                /\ r.err = ""
                /\ r.t = T
                /\ Tombstones(r.t.root) = Tombstones(root)
                /\ Hash(r.t) = Hash(T)

\* the root branch of a handle opened from the store holds a key behind a
\* Stored placeholder and another one under a node with tombstones, and
\* both are written again with the value they have
C11_Witness ==
    /\ root.kind = "Full"
    /\ \E k, o \in Keys :
        /\ root.Children[KeybytesHex(k)[1]].kind = "Stored"
        /\ root.Children[KeybytesHex(o)[1]].kind = "WithDeletedKeys"
        /\ Get(T, k).value \in Values
        /\ Get(T, o).value \in Values
        /\ Update(T, k, Get(T, k).value) = [t |-> T, err |-> ""]
        /\ Update(T, o, Get(T, o).value) = [t |-> T, err |-> ""]


(***************************************************************************)
(* Tombstones                                                              *)
(***************************************************************************)

\* the record a Commit of t writes for the tombstone of path at version v
TombstoneWritten(t, path, v) ==
    \E c \in {Commit(t)} :
        /\ c.err = ""
        /\ maybeValuePrefix(t.storage, NewKey(path, v)) \in DOMAIN c.t.storage.db
        /\ c.t.storage.db[maybeValuePrefix(t.storage, NewKey(path, v))] = RawBlob(deletedValue)

\* the tombstones of t that the trie after an Update or a Remove no longer holds
Dropped(t, after) == Tombstones(t.root) \ Tombstones(after.root)

\* C13: a Remove of a present key k while the in-progress version is V puts
\* the tombstone (k's full terminator path, V) in the in-memory tombstone
\* sets; every tombstone held in memory is of an absent key and the next
\* Commit writes the record 0x80 at its path and version; an Update drops no
\* tombstone but the one of the key it inserts, and a Remove drops none,
\* branch collapses included.
C13_TombstonesReachCommit ==
    /\ \A k \in Keys :
        Get(T, k).value \in Values =>
            \E r \in {Remove(T, k)} :
                /\ r.err = ""
                /\ <<KeybytesHex(k), version>> \in Tombstones(r.t.root)
                /\ Len(KeybytesHex(k)) = hexEncodingKeySize
                /\ KeybytesHex(k)[hexEncodingKeySize] = hexEncodingTerm
                /\ TombstoneWritten(r.t, KeybytesHex(k), version)
                /\ Dropped(T, r.t) = {}
    /\ \A k \in Keys, v \in Values :
        \E r \in {Update(T, k, v)} :
            /\ r.err = ""
            /\ \A d \in Dropped(T, r.t) : d[1] = KeybytesHex(k)
    /\ \A d \in Tombstones(root) :
        /\ \E k \in Keys : d[1] = KeybytesHex(k) /\ Get(T, k) = Nothing
        /\ TombstoneWritten(T, d[1], d[2])

\* a trie holds a tombstone no Commit has written yet and the removal of
\* another key collapses the branch under it: both tombstones are held
C13_Witness ==
    /\ \E d \in Tombstones(root) : d[2] = version
    /\ \E k \in Keys :
        /\ Get(T, k).value \in Values
        /\ HasKind(root, "Full")
        /\ ~HasKind(Remove(T, k).t.root, "Full")
        /\ HasKind(Remove(T, k).t.root, "Leaf")
        /\ Cardinality(Tombstones(Remove(T, k).t.root)) = 2
        /\ Dropped(T, Remove(T, k).t) = {}

(***************************************************************************)
(* Version-bounded reads                                                   *)
(***************************************************************************)

\* get on path, started at node n, ends at a Stored placeholder
RECURSIVE ReachesStored(_, _, _)
ReachesStored(n, path, index) ==
    IF IsLive(n) /\ ~PrefixContainedIn(n, path, index) THEN FALSE
    ELSE CASE n.kind = "Full" ->
                ReachesStored(n.Children[At(path, index + Len(n.Key))], path,
                              index + Len(n.Key) + 1)
           [] n.kind = "WithDeletedKeys" ->
                ~KeySetContains(n.DeletedKeys, path) /\ ReachesStored(n.Node, path, index)
           [] n.kind = "Stored" -> TRUE
           [] OTHER -> FALSE

\* the versions of the value records the store of t holds at the path of key k
RecordVersions(t, k) ==
    {w \in 0..(MaxVersion + 1) :
        maybeValuePrefix(t.storage, NewKey(KeybytesHex(k), w)) \in DOMAIN t.storage.db}

\* the value of the record of version w at the path of key k
RecordValue(t, k, w) == t.storage.db[maybeValuePrefix(t.storage, NewKey(KeybytesHex(k), w))].b

Newest(versions) == CHOOSE w \in versions : \A o \in versions : o <= w

\* C14: a trie opened at the version V of a Commit has in-progress version
\* V + 1; a value its Get returns is the value of a record of version <= V,
\* and a Get that reaches a Stored placeholder returns what the newest value
\* record of version <= V at the exact key path holds (nothing when that
\* record is 0x80 or there is none), whatever records of later versions the
\* store holds at that path.
C14_ReadsAtMostOpenedVersion ==
    \A i \in DOMAIN commits :
        \E r \in {Reopened(i)} :
            r.err = "" =>
                /\ r.t.version - 1 = commits[i].version
                /\ \A k \in Keys :
                    \E g \in {Get(r.t, k)} :
                        \E old \in {{w \in RecordVersions(r.t, k) : w <= commits[i].version}} :
                            /\ g.err = ""
                            /\ g.value \in Values =>
                                \E w \in old : RecordValue(r.t, k, w) = g.value
                            /\ ReachesStored(r.t.root, KeybytesHex(k), 0) =>
                                g = IF old = {} \/ wasDeleted(RecordValue(r.t, k, Newest(old)))
                                    THEN Nothing
                                    ELSE Found(RecordValue(r.t, k, Newest(old)))

\* a trie opened at an earlier Commit reads, through a Stored placeholder, a
\* key of which the store holds a newer record with another value, and a key
\* of which the store holds a newer tombstone
C14_Witness ==
    \E i \in DOMAIN commits :
        /\ Reopened(i).err = ""
        /\ \E k \in Keys :
            /\ ReachesStored(Reopened(i).t.root, KeybytesHex(k), 0)
            /\ Get(Reopened(i).t, k).value \in Values
            /\ \E w \in RecordVersions(Reopened(i).t, k) :
                /\ w > commits[i].version
                /\ RecordValue(Reopened(i).t, k, w) \in Values \ {Get(Reopened(i).t, k).value}
        /\ \E k \in Keys :
            /\ ReachesStored(Reopened(i).t.root, KeybytesHex(k), 0)
            /\ Get(Reopened(i).t, k).value \in Values
            /\ \E w \in RecordVersions(Reopened(i).t, k) :
                /\ w > commits[i].version
                /\ RecordValue(Reopened(i).t, k, w) = deletedValue

(***************************************************************************)
(* Version counter and version tags                                        *)
(***************************************************************************)

\* the nodes held in memory under n, tombstone wrappers left out
RECURSIVE Subtrees(_)
Subtrees(n) ==
    CASE n.kind = "WithDeletedKeys" -> Subtrees(n.Node)
      [] n.kind = "Full" -> {n} \cup UNION {Subtrees(n.Children[i]) : i \in Radixes}
      [] n.kind \in {"Leaf", "Stored"} -> {n}
      [] OTHER -> {}

\* the nodes the descent on path meets from n on, the node at which it stops
\* included: the positions at which an Update or a Remove of the path puts
\* the nodes it creates and the nodes it replaces; every other node is held
\* as before or as the store has it
RECURSIVE Touched(_, _, _)
Touched(n, path, index) ==
    CASE n.kind = "WithDeletedKeys" -> Touched(n.Node, path, index)
      [] n.kind = "Full" ->
            {n} \cup IF PrefixContainedIn(n, path, index)
                     THEN Touched(n.Children[At(path, index + Len(n.Key))], path,
                                  index + Len(n.Key) + 1)
                     ELSE {}
      [] n.kind \in {"Leaf", "Stored"} -> {n}
      [] OTHER -> {}

\* C15: a trie created empty at version v0 has in-progress version v0 + 1;
\* Commit increases the in-progress version by exactly 1, Update and Remove
\* leave it alone, so the versions of the recorded Commits strictly
\* increase; every node that an Update or a Remove creates or replaces
\* carries the in-progress version of the call.
C15_VersionCounterAndTags ==
    /\ \A v0 \in 0..MaxVersion :
        /\ NewEmptyPrefixedLudicrousTrie(TriePrefix, db, v0).version = v0 + 1
        /\ NewEmptyPrefixedLudicrousTrie(TriePrefix, db, v0).root = NewNil
    /\ Commit(T).t.version = version + 1
    /\ \A i, j \in DOMAIN commits : i < j => commits[i].version < commits[j].version
    /\ \A i \in DOMAIN commits : commits[i].version < version
    /\ \A k \in Keys :
        \E r \in {Remove(T, k)} :
            /\ r.t.version = version
            /\ r.t.root # root =>
                \A n \in Touched(r.t.root, KeybytesHex(k), 0) : n.version = version
            /\ Subtrees(r.t.root) \ Touched(r.t.root, KeybytesHex(k), 0)
                    \subseteq {n \in Subtrees(r.t.root) : n.version <= version}
    /\ \A k \in Keys, v \in Values :
        \E r \in {Update(T, k, v)} :
            /\ r.t.version = version
            /\ r.t.root # root =>
                \A n \in Touched(r.t.root, KeybytesHex(k), 0) : n.version = version
            /\ Subtrees(r.t.root) \ Touched(r.t.root, KeybytesHex(k), 0)
                    \subseteq {n \in Subtrees(r.t.root) : n.version <= version}

\* after two Commits the trie holds nodes of an earlier version only; an
\* Update replaces some of them and keeps others, and a Remove collapses a
\* branch onto a child of an earlier version, which is tagged anew
C15_Witness ==
    /\ Len(commits) >= 2
    /\ \A n \in Subtrees(root) : n.version < version
    /\ \E k \in Keys, v \in Values :
        /\ Cardinality(Touched(Update(T, k, v).t.root, KeybytesHex(k), 0)) >= 2
        /\ Update(T, k, v).t.root # root
        /\ \E n \in Subtrees(Update(T, k, v).t.root) : n.version < version
    /\ \E k \in Keys :
        /\ root.kind = "Full"
        /\ Remove(T, k).t.root.kind = "WithDeletedKeys"
        /\ Remove(T, k).t.root.Node.kind = "Leaf"
        /\ Remove(T, k).t.root.Node.version = version

(***************************************************************************)
(* The state database: the account trie, two storage tries and a trie      *)
(* without a prefix over one backing store.  others maps each trie to its  *)
(* handle [version, root] and to the latest Commit of it [hash, version,   *)
(* reads]; db is the shared store, mutations the joint number of Update    *)
(* and Remove calls.                                                       *)
(***************************************************************************)
MaxSharedMutations == 3

MaxSharedCommits == 2

AddrHashes == <<[i \in 1..HashLength |-> 0], [i \in 1..(HashLength - 1) |-> 0] \o <<1>>>>

StorageTries == {"storage1", "storage2"}

PrefixedTries == {"account"} \cup StorageTries

Tries == PrefixedTries \cup {"plain"}

AddrHashOf(id) == IF id = "storage1" THEN AddrHashes[1] ELSE AddrHashes[2]

PrefixOf(id) ==
    CASE id = "account" -> accountPrefix
      [] id \in StorageTries -> storagePrefix(AddrHashOf(id))
      [] OTHER -> noPrefix

SharedKeys == {AllKeys[1], AllKeys[3]}

\* every trie writes a value of its own
ValueOf(id) ==
    CASE id = "account" -> <<1>>
      [] id = "storage1" -> <<2>>
      [] id = "storage2" -> <<3>>
      [] OTHER -> <<4>>

NoCommit == [hash |-> zeroHash, version |-> 0, reads |-> [k \in Keys |-> Nothing]]

\* the handle of trie id over the store d
HandleOf(id, d) == Trie(others[id].version, others[id].root, NewPrefixedCollection(PrefixOf(id), d))

\* the constructor of the empty trie id
EmptyOf(id, d, v) ==
    IF id = "plain" THEN NewEmptyLudicrousTrie(d, v)
    ELSE NewEmptyPrefixedLudicrousTrie(PrefixOf(id), d, v)

\* the call that opens trie id at (hash, v) over the store d
OpenerOf(id, d, hash, v) ==
    CASE id = "account" -> OpenTrie(d, hash, v)
      [] id \in StorageTries -> OpenStorageTrie(d, AddrHashOf(id), hash, v)
      [] OTHER -> IF hash = zeroHash THEN [t |-> NewEmptyLudicrousTrie(d, v), err |-> ""]
                  ELSE NewLudicrousTrie(d, hash, v)

SharedInit ==
    /\ \E t \in {NewEmptyPrefixedLudicrousTrie(TriePrefix, <<>>, 0)} :
        version = t.version /\ root = t.root /\ db = t.storage.db
    /\ commits = <<>>
    /\ mutations = 0
    /\ others = [id \in Tries |->
                    [version |-> EmptyOf(id, <<>>, 0).version,
                     root    |-> EmptyOf(id, <<>>, 0).root,
                     last    |-> NoCommit]]
    /\ drawn = NothingDrawn

RECURSIVE CommitCalls(_)
CommitCalls(ids) ==
    IF ids = {} THEN 0
    ELSE LET id == CHOOSE i \in ids : TRUE
         IN  (others[id].version - 1) + CommitCalls(ids \ {id})

Adopted(id, t) == [others EXCEPT ![id].version = t.version, ![id].root = t.root]

SharedUpdateOp(id, key, value) ==
    \E r \in {Update(HandleOf(id, db), key, value)} :
        /\ mutations < MaxSharedMutations
        /\ others' = IF r.err = "" THEN Adopted(id, r.t) ELSE others
        /\ mutations' = mutations + 1
        /\ UNCHANGED <<version, root, db, commits, drawn>>

SharedRemoveOp(id, key) ==
    \E r \in {Remove(HandleOf(id, db), key)} :
        /\ mutations < MaxSharedMutations
        /\ others' = IF r.err = "" THEN Adopted(id, r.t) ELSE others
        /\ mutations' = mutations + 1
        /\ UNCHANGED <<version, root, db, commits, drawn>>

\* Commit advances the version before it finalizes: a Commit that fails
\* leaves the store and the latest Commit as they were
SharedCommitOp(id) ==
    \E r \in {Commit(HandleOf(id, db))} :
        /\ CommitCalls(Tries) < MaxSharedCommits
        /\ db' = r.t.storage.db
        /\ others' = IF r.err = ""
                     THEN [Adopted(id, r.t) EXCEPT
                              ![id].last = [hash    |-> r.hash,
                                            version |-> others[id].version,
                                            reads   |-> Reads(HandleOf(id, db))]]
                     ELSE Adopted(id, r.t)
        /\ UNCHANGED <<version, root, commits, mutations, drawn>>

\* the trie is opened again at its latest Commit (at the zero hash before
\* the first one); the new handle replaces the working one
SharedOpenOp(id) ==
    \E r \in {OpenerOf(id, db, others[id].last.hash, others[id].last.version)} :
        /\ r.err = ""
        /\ others' = Adopted(id, r.t)
        /\ others' # others
        /\ UNCHANGED <<version, root, db, commits, mutations, drawn>>

SharedNext ==
    \/ \E id \in Tries, k \in SharedKeys : SharedUpdateOp(id, k, ValueOf(id))
    \/ \E id \in Tries, k \in SharedKeys : SharedRemoveOp(id, k)
    \/ \E id \in Tries : SharedCommitOp(id)
    \/ \E id \in Tries : SharedOpenOp(id)

SpecShared == SharedInit /\ [][SharedNext]_vars

\* the leaves held in memory under n, each with its full path
RECURSIVE LeavesAt(_, _)
LeavesAt(n, path) ==
    CASE n.kind = "WithDeletedKeys" -> LeavesAt(n.Node, path)
      [] n.kind = "Full" ->
            UNION {LeavesAt(n.Children[i], path \o n.Key \o <<i>>) : i \in Radixes}
      [] n.kind = "Leaf" -> {[path |-> path \o n.Key, leaf |-> n]}
      [] OTHER -> {}

ValueRecord(c, path, v) == maybeValuePrefix(c, NewKey(path, v))

NodeRecord(c, path, v) == maybeNonValuePrefix(c, NewKey(path, v))

\* C12: a Commit stages the node records, the value records and the
\* tombstones of the trie in one batch and submits it once: after a Commit
\* that succeeds the store is the store before it with exactly the staged
\* records written, and it holds the record of every branch, of every leaf
\* value and of every tombstone held in memory; after a Commit whose
\* finalization fails the store is the store before it.
C12_CommitIsOneBatch ==
    \A id \in Tries :
        \E t \in {HandleOf(id, db)} :
            \E staged \in {finalize(t.storage, t.root, rootPath, doStore, doForceHash)} :
                \E c \in {Commit(t)} :
                    /\ c.err = staged.err
                    /\ c.err # "" => c.t.storage.db = db
                    /\ c.err = "" =>
                        /\ c.t.storage.db = BatchWrite(db, staged.batch)
                        /\ DOMAIN c.t.storage.db
                            = (DOMAIN db) \cup {staged.batch[i].key : i \in DOMAIN staged.batch}
                        /\ \A k \in (DOMAIN db) \ {staged.batch[i].key : i \in DOMAIN staged.batch} :
                            c.t.storage.db[k] = db[k]
                        /\ \A l \in LeavesAt(t.root, rootPath) :
                            /\ ValueRecord(t.storage, l.path, l.leaf.version) \in DOMAIN c.t.storage.db
                            /\ c.t.storage.db[ValueRecord(t.storage, l.path, l.leaf.version)]
                                = RawBlob(l.leaf.Value)
                        /\ \A d \in Tombstones(t.root) :
                            /\ ValueRecord(t.storage, d[1], d[2]) \in DOMAIN c.t.storage.db
                            /\ c.t.storage.db[ValueRecord(t.storage, d[1], d[2])]
                                = RawBlob(deletedValue)
                        /\ \A b \in Branches(t.root, rootPath) :
                            NodeRecord(t.storage, b.path, b.node.version) \in DOMAIN c.t.storage.db

\* over a store that holds the records of an earlier Commit, the Commit of
\* one trie writes a tombstone and the Commit of the trie without a prefix,
\* which holds a leaf, fails
C12_Witness ==
    /\ db # <<>>
    /\ \E id \in PrefixedTries :
        /\ Commit(HandleOf(id, db)).err = ""
        /\ Tombstones(others[id].root) # {}
        /\ Commit(HandleOf(id, db)).t.storage.db # db
    /\ others["plain"].root.kind = "Leaf"
    /\ Commit(HandleOf("plain", db)).err # ""
    /\ Commit(HandleOf("plain", db)).t.storage.db = db

(***************************************************************************)
(* Prefix isolation                                                        *)
(***************************************************************************)
HasBytePrefix(k, p) == Len(k) >= Len(p) /\ Upto(k, Len(p)) = p

\* the store d restricted to the records under the prefix of trie id
RecordsOf(id, d) == [k \in {x \in DOMAIN d : HasBytePrefix(x, PrefixOf(id))} |-> d[k]]

\* trie id opened at its latest Commit over the store d
OpenedAtLast(id, d) == OpenerOf(id, d, others[id].last.hash, others[id].last.version)

\* what a client of the handle t observes: the reads, the hash, and the
\* tries that Update and Remove of every key return
Observed(t) ==
    [reads   |-> Reads(t),
     hash    |-> Hash(t),
     updates |-> [k \in SharedKeys |-> [r |-> Update(t, k, <<1>>).t.root,
                                        e |-> Update(t, k, <<1>>).err]],
     removes |-> [k \in SharedKeys |-> [r |-> Remove(t, k).t.root,
                                        e |-> Remove(t, k).err]]]

\* C19: for two tries a and b of the state database (the account trie and
\* the storage tries of two address hashes) over one store: a Commit of a
\* writes records under the prefix of a only and leaves every record under
\* the prefix of b as it is; b reads, hashes and is updated over the shared
\* store as over a store that holds its own records only, before and after
\* the Commit of a; and the latest Commit of b opens after the Commit of a
\* as it did before, a storage trie always, with the reads of that Commit.
C19_PrefixesIsolateTries ==
    \A a \in PrefixedTries :
        \E c \in {Commit(HandleOf(a, db))} :
            /\ c.err = ""
            /\ \A k \in (DOMAIN c.t.storage.db) \ (DOMAIN db) : HasBytePrefix(k, PrefixOf(a))
            /\ \A b \in PrefixedTries \ {a} :
                /\ RecordsOf(b, c.t.storage.db) = RecordsOf(b, db)
                /\ Observed(HandleOf(b, db)) = Observed(HandleOf(b, RecordsOf(b, db)))
                /\ Observed(HandleOf(b, c.t.storage.db)) = Observed(HandleOf(b, db))
                /\ others[b].last.version > 0 =>
                    \E before \in {OpenedAtLast(b, db)} :
                        \E after \in {OpenedAtLast(b, c.t.storage.db)} :
                            /\ after.err = before.err
                            /\ after.t.root = before.t.root
                            /\ b \in StorageTries => after.err = ""
                            /\ after.err = "" => Reads(after.t) = others[b].last.reads

\* a storage trie has committed a key; the account trie and the other
\* storage trie hold the same key with another value, not yet committed
C19_Witness ==
    \E b \in StorageTries, k \in SharedKeys :
        /\ others[b].last.version > 0
        /\ others[b].last.reads[k] = Found(ValueOf(b))
        /\ RecordsOf(b, db) # <<>>
        /\ (HasKind(others[b].root, "Stored") \/ OpenedAtLast(b, db).err = "")
        /\ \A a \in PrefixedTries \ {b} :
            /\ Get(HandleOf(a, db), k) = Found(ValueOf(a))
            /\ Commit(HandleOf(a, db)).err = ""
            /\ Commit(HandleOf(a, db)).t.storage.db # db
            /\ Get(OpenedAtLast(b, Commit(HandleOf(a, db)).t.storage.db).t, k) = Found(ValueOf(b))

(***************************************************************************)
(* C20: a trie created without a prefix can be updated and committed, the  *)
(* Commit writes its records under the namespace byte alone, and the trie  *)
(* opens again at the committed (root, version) with the same reads.       *)
(***************************************************************************)
C20_UnprefixedTrieCommits ==
    \E t \in {HandleOf("plain", db)} :
        \E c \in {Commit(t)} :
            /\ c.err = ""
            /\ \A k \in (DOMAIN c.t.storage.db) \ (DOMAIN db) :
                k[1] \in {NonValueNamespace, ValueNamespace}
            /\ \E o \in {NewLudicrousTrie(c.t.storage.db, c.hash, t.version)} :
                /\ o.err = ""
                /\ Reads(o.t) = Reads(t)

(***************************************************************************)
(* The storage key encoder on its own: two (path, version) arguments are   *)
(* drawn, NewKey is applied to both.  drawn holds the arguments and the    *)
(* keys; the trie and the store stay as constructed.                       *)
(***************************************************************************)
MaxPathLen == 4

PathNibbles == {0, 15}

KeyVersions == {0, 1, 2, 255, 256, 65536, 33554432}

RECURSIVE PathsOfLen(_)
PathsOfLen(n) ==
    IF n = 0 THEN {<<>>}
    ELSE {Append(q, x) : q \in PathsOfLen(n - 1), x \in PathNibbles}

\* the paths of branches (no terminator, every length up to the bound) and
\* the 65-nibble paths of the modelled keys
BranchPaths == UNION {PathsOfLen(n) : n \in 0..MaxPathLen}

DrawnPaths == BranchPaths \cup {KeybytesHex(k) : k \in Keys}

NoKey == <<>>

KeyInit ==
    /\ \E t \in {NewEmptyPrefixedLudicrousTrie(TriePrefix, <<>>, 0)} :
        version = t.version /\ root = t.root /\ db = t.storage.db
    /\ commits = <<>>
    /\ mutations = 0
    /\ others = NoOthers
    /\ \E p1 \in DrawnPaths, p2 \in DrawnPaths, v1 \in KeyVersions, v2 \in KeyVersions :
        drawn = [p1 |-> p1, v1 |-> v1, p2 |-> p2, v2 |-> v2,
                 key1 |-> NoKey, key2 |-> NoKey, applied |-> FALSE]

NewKeyOp ==
    /\ ~drawn.applied
    /\ drawn' = [drawn EXCEPT !.key1 = NewKey(drawn.p1, drawn.v1),
                              !.key2 = NewKey(drawn.p2, drawn.v2),
                              !.applied = TRUE]
    /\ UNCHANGED <<version, root, db, commits, mutations, others>>

KeyNext == NewKeyOp

SpecKey == KeyInit /\ [][KeyNext]_vars

IsStrictPrefix(p, q) == Len(p) < Len(q) /\ Upto(q, Len(p)) = p

\* C16: for one path and two versions the keys compare, byte-wise, as the
\* versions do, and Key.Version of a key is the version it was built with.
C16_VersionOrdersKeys ==
    drawn.applied =>
        /\ KeyVersion(drawn.key1) = drawn.v1
        /\ KeyVersion(drawn.key2) = drawn.v2
        /\ drawn.p1 = drawn.p2 =>
            (BytesLess(drawn.key1, drawn.key2) <=> drawn.v1 < drawn.v2)

\* one odd-length path with two versions that differ in a high byte only
C16_Witness ==
    /\ drawn.applied
    /\ drawn.p1 = drawn.p2
    /\ Len(drawn.p1) % 2 = 1
    /\ drawn.v1 = 255 /\ drawn.v2 = 256
    /\ BytesLess(drawn.key1, drawn.key2)

\* C17: when the first path is a strict prefix of the second, the key of the
\* first path is byte-wise smaller than the key of the second, whatever the
\* two versions.
C17_PrefixSortsFirst ==
    drawn.applied /\ IsStrictPrefix(drawn.p1, drawn.p2) =>
        BytesLess(drawn.key1, drawn.key2)

\* C18: on paths without terminator two different (path, version) arguments
\* never give the same key; an odd-length path and the path with one more
\* 0 nibble pack to the same path bytes and differ in the odd byte.
C18_NewKeyInjective ==
    drawn.applied /\ ~HasTerm(drawn.p1) /\ ~HasTerm(drawn.p2) =>
        /\ <<drawn.p1, drawn.v1>> # <<drawn.p2, drawn.v2>> => drawn.key1 # drawn.key2
        /\ Len(drawn.p1) % 2 = 1 /\ drawn.p2 = drawn.p1 \o <<0>> =>
            /\ KeyPath(drawn.key1) = KeyPath(drawn.key2)
            /\ KeyOddByte(drawn.key1) = 1
            /\ KeyOddByte(drawn.key2) = 0

\* an odd-length path and the same path with one more 0 nibble, one version
C18_Witness ==
    /\ drawn.applied
    /\ Len(drawn.p1) = 3
    /\ drawn.p2 = drawn.p1 \o <<0>>
    /\ drawn.v1 = drawn.v2
    /\ KeyPath(drawn.key1) = KeyPath(drawn.key2)
    /\ drawn.key1 # drawn.key2

(***************************************************************************)
(* turbotrie storage.Collection: put, delete and Prune.  The collection is *)
(* the record [prefix, db] as above; its keys carry the prefix alone.      *)
(***************************************************************************)
maybePrefix(c, key) == IF Len(c.prefix) = 0 THEN key ELSE c.prefix \o key

\* Collection.Store: the store after the put
CollectionStore(c, path, v, node) ==
    [k \in (DOMAIN c.db) \cup {maybePrefix(c, NewKey(path, v))} |->
        IF k = maybePrefix(c, NewKey(path, v)) THEN node ELSE c.db[k]]

\* Collection.delete: the store after the delete
CollectionDelete(c, d, key) == [k \in (DOMAIN d) \ {maybePrefix(c, key)} |-> d[k]]

\* the keys of a store in iterator order
RECURSIVE InIteratorOrder(_)
InIteratorOrder(keys) ==
    IF keys = {} THEN <<>>
    ELSE LET first == CHOOSE k \in keys : \A o \in keys : BytesLeq(k, o)
         IN  <<first>> \o InIteratorOrder(keys \ {first})

\* append(k.path(), k.oddByte())
PathAndOddByte(k) == Upto(k, Len(k) - 4)

\* the inner loop of Prune over the candidates, from the last one down:
\* returns the candidates that stay and the store after the deletes
RECURSIVE PruneCandidates(_, _, _, _)
PruneCandidates(c, candidates, current, d) ==
    IF candidates = <<>> THEN [candidates |-> candidates, db |-> d]
    ELSE LET last == candidates[Len(candidates)]
         IN  IF PathAndOddByte(current) = PathAndOddByte(last)
             THEN PruneCandidates(c, Upto(candidates, Len(candidates) - 1), current,
                                  CollectionDelete(c, d, last))
             ELSE IF HasBytePrefix(current, PathAndOddByte(last))
             THEN [candidates |-> candidates, db |-> d]
             ELSE PruneCandidates(c, Upto(candidates, Len(candidates) - 1), current, d)

\* the outer loop of Prune over the keys the iterator still has to visit
RECURSIVE PruneScan(_, _, _, _, _)
PruneScan(c, keys, candidates, d, minVersion) ==
    IF keys = <<>> THEN d
    ELSE LET Visited(r) ==
                PruneScan(c, Tail(keys),
                          IF KeyVersion(keys[1]) < minVersion
                          THEN Append(r.candidates, keys[1]) ELSE r.candidates,
                          r.db, minVersion)
         IN  Visited(PruneCandidates(c, candidates, keys[1], d))

\* Collection.Prune: the store after the call (the iterator runs over the
\* keys of the whole database as they were when the call began)
Prune(c, minVersion) == PruneScan(c, InIteratorOrder(DOMAIN c.db), <<>>, c.db, minVersion)

(***************************************************************************)
(* Prune on its own: a collection is filled by Store calls with the        *)
(* records of a few paths at a few versions, then pruned once.  drawn      *)
(* holds the collection, the threshold and the store after the call.       *)
(***************************************************************************)
MaxPruneVersion == 3

PrunePaths == <<rootPath, <<0>>, <<0, 0>>>>

PrunePrefixes == {noPrefix, <<0>>}

\* the records a store may hold: (index of the path, version)
PruneRecords == (DOMAIN PrunePaths) \X (1..MaxPruneVersion)

\* the stored node of a record tells its path and its version
PruneNode(rec) == RStr(<<rec[1], rec[2]>>)

RECURSIVE StoredAll(_, _)
StoredAll(c, recs) ==
    IF recs = {} THEN c
    ELSE LET rec == CHOOSE r \in recs : TRUE
         IN  StoredAll([c EXCEPT !.db = CollectionStore(c, PrunePaths[rec[1]], rec[2], PruneNode(rec))],
                       recs \ {rec})

PruneInit ==
    /\ \E t \in {NewEmptyPrefixedLudicrousTrie(TriePrefix, <<>>, 0)} :
        version = t.version /\ root = t.root /\ db = t.storage.db
    /\ commits = <<>>
    /\ mutations = 0
    /\ others = NoOthers
    /\ \E prefix \in PrunePrefixes, recs \in SUBSET PruneRecords,
          minVersion \in 1..(MaxPruneVersion + 1) :
        drawn = [c |-> StoredAll(NewPrefixedCollection(prefix, <<>>), recs),
                 minVersion |-> minVersion,
                 after |-> <<>>,
                 applied |-> FALSE]

PruneOp ==
    /\ ~drawn.applied
    /\ drawn' = [drawn EXCEPT !.after = Prune(drawn.c, drawn.minVersion), !.applied = TRUE]
    /\ UNCHANGED <<version, root, db, commits, mutations, others>>

PruneNext == PruneOp

SpecPrune == PruneInit /\ [][PruneNext]_vars

\* the keys of the collection c that the store d holds
CollectionKeys(c, d) == {k \in UNION {{From(x, Len(c.prefix))} : x \in DOMAIN d} :
                            maybePrefix(c, k) \in DOMAIN d}

\* the key of the record that a read of (path, odd flag) at version v takes
\* from the store d: the highest version <= v; <<>> when there is none
NewestAt(c, d, pathAndOdd, v) ==
    LET hits == {k \in CollectionKeys(c, d) :
                    PathAndOddByte(k) = pathAndOdd /\ KeyVersion(k) <= v}
    IN  IF hits = {} THEN <<>> ELSE LastKey(hits)

\* C21: Prune deletes a record only when its version is below the threshold
\* and the store holds a record of the same path bytes and odd flag with a
\* higher version; it writes nothing.
C21_PruneDeletesOnlySuperseded ==
    drawn.applied =>
        /\ \A k \in CollectionKeys(drawn.c, drawn.after) :
            /\ k \in CollectionKeys(drawn.c, drawn.c.db)
            /\ drawn.after[maybePrefix(drawn.c, k)] = drawn.c.db[maybePrefix(drawn.c, k)]
        /\ \A k \in CollectionKeys(drawn.c, drawn.c.db) \ CollectionKeys(drawn.c, drawn.after) :
            /\ KeyVersion(k) < drawn.minVersion
            /\ \E o \in CollectionKeys(drawn.c, drawn.c.db) :
                /\ PathAndOddByte(o) = PathAndOddByte(k)
                /\ KeyVersion(o) > KeyVersion(k)

\* C22: for every path and odd flag and every version at or above the
\* threshold, the record that a read at that version takes is the same
\* record, with the same node, after Prune as before.
C22_PruneKeepsReads ==
    drawn.applied =>
        \A k \in CollectionKeys(drawn.c, drawn.c.db), v \in drawn.minVersion..(MaxPruneVersion + 1) :
            \E before \in {NewestAt(drawn.c, drawn.c.db, PathAndOddByte(k), v)} :
                /\ NewestAt(drawn.c, drawn.after, PathAndOddByte(k), v) = before
                /\ before # <<>> =>
                    drawn.after[maybePrefix(drawn.c, before)] = drawn.c.db[maybePrefix(drawn.c, before)]

(***************************************************************************)
(* The vector database ("fridge") of ethdb/vectordb: an INDEX file of      *)
(* 16-byte entries {offset, length} and a DATA file of the appended items. *)
(* A VectorDB value is [items, open, index, data]: the item counter, the   *)
(* file handles being non-nil, and the bytes of the two files.             *)
(***************************************************************************)
indexEntryLen == 16

errClosed == "vector database already closed"

errOutOfRange == "position out of range"

errEOF == "EOF"

PutUint64(n) == <<0, 0, 0, 0>> \o BigEndian(n, 4)

Uint64(b) == BigEndianValue(b)

indexOffset(pos) == pos * indexEntryLen

unmarshalBinary(b) == [offset |-> Uint64(SubSeq(b, 1, 8)), length |-> Uint64(SubSeq(b, 9, 16))]

marshallBinary(e) == PutUint64(e.offset) \o PutUint64(e.length)

\* os.File.ReadAt: fewer than n bytes from off on is io.EOF.
FileReadAt(file, n, off) ==
    IF off + n <= Len(file) THEN [b |-> SubSeq(file, off + 1, off + n), err |-> ""]
    ELSE [b |-> <<>>, err |-> errEOF]

\* os.File.Truncate: cuts the file, or extends it with zero bytes.
FileTruncate(file, size) ==
    IF size <= Len(file) THEN Upto(file, size)
    ELSE file \o [i \in 1..(size - Len(file)) |-> 0]

VectorDBOpen == [items |-> 0, open |-> TRUE, index |-> <<>>, data |-> <<>>]

checkIsOpen(f) == IF f.open THEN "" ELSE errClosed

indexEntry(f, pos) ==
    LET r == FileReadAt(f.index, indexEntryLen, indexOffset(pos))
    IN  IF r.err # "" THEN [entry |-> [offset |-> 0, length |-> 0], err |-> r.err]
        ELSE [entry |-> unmarshalBinary(r.b), err |-> ""]

VectorDBGet(f, pos) ==
    IF checkIsOpen(f) # "" THEN [b |-> <<>>, err |-> checkIsOpen(f)]
    ELSE IF pos >= f.items THEN [b |-> <<>>, err |-> errOutOfRange]
    ELSE LET e == indexEntry(f, pos)
         IN  IF e.err # "" THEN [b |-> <<>>, err |-> e.err]
             ELSE FileReadAt(f.data, e.entry.length, e.entry.offset)

dataFileSize(f) == Len(f.data)

VectorDBAppendOffsetAfterWrite(f, b) ==
    IF checkIsOpen(f) # "" THEN [f |-> f, err |-> checkIsOpen(f)]
    ELSE [f |-> [f EXCEPT !.data = f.data \o b,
                          !.index = f.index \o marshallBinary([offset |-> Len(f.data \o b), length |-> Len(b)]),
                          !.items = f.items + 1],
          err |-> ""]

VectorDBAppend(f, b) ==
    IF checkIsOpen(f) # "" THEN [f |-> f, err |-> checkIsOpen(f)]
    ELSE [f |-> [f EXCEPT !.data = f.data \o b,
                          !.index = f.index \o marshallBinary([offset |-> dataFileSize(f), length |-> Len(b)]),
                          !.items = f.items + 1],
          err |-> ""]

truncateIndexFile(f, size) == [f EXCEPT !.index = FileTruncate(f.index, size)]

\* As in the source, the index file is the one truncated.
truncateDataFile(f, size) == [f EXCEPT !.index = FileTruncate(f.index, size)]

VectorDBTruncateUnchecked(f, len) ==
    IF checkIsOpen(f) # "" THEN [f |-> f, err |-> checkIsOpen(f)]
    ELSE LET f1 == truncateIndexFile([f EXCEPT !.items = len], len * indexEntryLen)
             lastEntry == indexEntry(f1, len)
         IN  IF lastEntry.err # "" THEN [f |-> f1, err |-> lastEntry.err]
             ELSE [f |-> truncateDataFile(f1, lastEntry.entry.offset + lastEntry.entry.length), err |-> ""]

VectorDBTruncate(f, len) ==
    IF checkIsOpen(f) # "" THEN [f |-> f, err |-> checkIsOpen(f)]
    ELSE IF len >= f.items THEN [f |-> f, err |-> errOutOfRange]
    ELSE LET f1 == truncateIndexFile([f EXCEPT !.items = len], len * indexEntryLen)
             lastEntry == indexEntry(f1, len)
         IN  IF lastEntry.err # "" THEN [f |-> f1, err |-> lastEntry.err]
             ELSE [f |-> truncateDataFile(f1, lastEntry.entry.offset + lastEntry.entry.length), err |-> ""]

Items(f) == f.items

VectorDBClose(f) ==
    IF checkIsOpen(f) # "" THEN [f |-> f, err |-> checkIsOpen(f)]
    ELSE [f |-> [f EXCEPT !.open = FALSE], err |-> ""]

(***************************************************************************)
(* SpecFridge: one VectorDB, opened in a fresh directory, under any        *)
(* sequence of Append, Get, Truncate and Close calls.  drawn.appended is   *)
(* the history of the successful Append calls, drawn.truncated tells that  *)
(* a Truncate call has changed the VectorDB, drawn.last is the last call   *)
(* with the VectorDB before it.                                            *)
(***************************************************************************)
MaxAppends == 4

FridgeItems == {<<1>>, <<2, 2>>, <<3, 3, 3>>}

FridgePositions == 0..(MaxAppends + 1)

FridgeCall(op, arg, before, b, err) == [op |-> op, arg |-> arg, before |-> before, b |-> b, err |-> err]

FridgeInit ==
    /\ \E t \in {NewEmptyPrefixedLudicrousTrie(TriePrefix, <<>>, 0)} :
        version = t.version /\ root = t.root /\ db = t.storage.db
    /\ commits = <<>>
    /\ mutations = 0
    /\ others = NoOthers
    /\ drawn = [f |-> VectorDBOpen, appended |-> <<>>, truncated |-> FALSE,
                last |-> FridgeCall("Open", 0, VectorDBOpen, <<>>, "")]

FridgeAppendOp ==
    /\ Len(drawn.appended) < MaxAppends
    /\ \E b \in FridgeItems : \E r \in {VectorDBAppend(drawn.f, b)} :
        drawn' = [f |-> r.f,
                  appended |-> IF r.err = "" THEN Append(drawn.appended, b) ELSE drawn.appended,
                  truncated |-> drawn.truncated,
                  last |-> FridgeCall("Append", b, drawn.f, <<>>, r.err)]
    /\ UNCHANGED <<version, root, db, commits, mutations, others>>

FridgeGetOp ==
    /\ \E pos \in FridgePositions : \E r \in {VectorDBGet(drawn.f, pos)} :
        drawn' = [drawn EXCEPT !.last = FridgeCall("Get", pos, drawn.f, r.b, r.err)]
    /\ UNCHANGED <<version, root, db, commits, mutations, others>>

FridgeTruncateOp ==
    /\ \E len \in FridgePositions : \E r \in {VectorDBTruncate(drawn.f, len)} :
        drawn' = [drawn EXCEPT !.f = r.f,
                               !.truncated = drawn.truncated \/ r.f # drawn.f,
                               !.last = FridgeCall("Truncate", len, drawn.f, <<>>, r.err)]
    /\ UNCHANGED <<version, root, db, commits, mutations, others>>

FridgeCloseOp ==
    /\ \E r \in {VectorDBClose(drawn.f)} :
        drawn' = [drawn EXCEPT !.f = r.f, !.last = FridgeCall("Close", 0, drawn.f, <<>>, r.err)]
    /\ UNCHANGED <<version, root, db, commits, mutations, others>>

FridgeNext == FridgeAppendOp \/ FridgeGetOp \/ FridgeTruncateOp \/ FridgeCloseOp

SpecFridge == FridgeInit /\ [][FridgeNext]_vars

\* The offset at which the i-th (from 1) appended item starts in the data file.
RECURSIVE OffsetOf(_, _)
OffsetOf(items, i) == IF i <= 1 THEN 0 ELSE OffsetOf(items, i - 1) + Len(items[i - 1])

\* C23: on an open log that has seen only successful Append calls (and reads),
\* Items() is the number of appended items, Get(i) returns the bytes of the
\* i-th appended item for every i < Items(), and index entry i records the
\* offset of that item in the data file and its length.
C23_AppendGet ==
    (drawn.f.open /\ ~drawn.truncated) =>
        /\ Items(drawn.f) = Len(drawn.appended)
        /\ Len(drawn.f.index) = Len(drawn.appended) * indexEntryLen
        /\ \A i \in 1..Len(drawn.appended) :
            /\ VectorDBGet(drawn.f, i - 1) = [b |-> drawn.appended[i], err |-> ""]
            /\ indexEntry(drawn.f, i - 1) =
                 [entry |-> [offset |-> OffsetOf(drawn.appended, i), length |-> Len(drawn.appended[i])],
                  err |-> ""]

C23_Witness ==
    /\ drawn.f.open /\ ~drawn.truncated
    /\ drawn.last.op = "Get" /\ drawn.last.err = ""
    /\ drawn.last.arg = 2
    /\ Len(drawn.appended) = 3
    /\ Len(drawn.appended[1]) # Len(drawn.appended[2])
    /\ drawn.last.b = drawn.appended[3]

\* C24: Get(pos) with pos >= Items() and Truncate(n) with n >= Items() return
\* an error and leave the item count, the index file and the data file as
\* they were.
C24_OutOfRangeIsError ==
    (drawn.last.op \in {"Get", "Truncate"} /\ drawn.last.arg >= Items(drawn.last.before)) =>
        /\ drawn.last.err # ""
        /\ drawn.f = drawn.last.before

C24_Witness ==
    /\ drawn.last.op = "Truncate"
    /\ drawn.last.before.open
    /\ Items(drawn.last.before) = 3
    /\ drawn.last.arg = 3
    /\ drawn.last.err = errOutOfRange

\* C25: Truncate(n) with n < Items() on an open log returns no error; then
\* Items() = n, Get(i) returns the item appended at position i for i < n,
\* Get(n) is an error, the data file ends with item n-1 and the index file
\* holds exactly n entries.
C25_TruncateShortens ==
    (/\ drawn.last.op = "Truncate"
     /\ drawn.last.before.open
     /\ drawn.last.arg < Items(drawn.last.before)) =>
        /\ drawn.last.err = ""
        /\ Items(drawn.f) = drawn.last.arg
        /\ \A i \in 0..(drawn.last.arg - 1) :
             VectorDBGet(drawn.f, i) = VectorDBGet(drawn.last.before, i)
        /\ VectorDBGet(drawn.f, drawn.last.arg).err # ""
        /\ Len(drawn.f.index) = drawn.last.arg * indexEntryLen
        /\ Len(drawn.f.data) =
             LET e == indexEntry(drawn.last.before, drawn.last.arg - 1).entry
             IN  IF drawn.last.arg = 0 THEN 0 ELSE e.offset + e.length

(***************************************************************************)
(* core/rawdb: the migration of chain data from a source to a destination  *)
(* key-value store.  A store is a function from keys to values; the schema *)
(* keys are tuples headed by the schema's prefix.  A header is             *)
(* [Number, Extra], a block [header, txs], a hash a positive number, the   *)
(* zero hash 0.                                                            *)
(***************************************************************************)
emptyHash == 0

Absent == [found |-> FALSE, v |-> 0]

dbGet(d, k) == IF k \in DOMAIN d THEN [found |-> TRUE, v |-> d[k]] ELSE Absent

dbPut(d, k, v) == (k :> v) @@ d

databaseVerisionKey == <<"DatabaseVersion">>

headHeaderKey == <<"LastHeader">>

headBlockKey == <<"LastBlock">>

headFastBlockKey == <<"LastFast">>

configKey(hash) == <<"ethereum-config-", hash>>

headerHashKey(number) == <<"hn", number>>

headerKey(number, hash) == <<"h", number, hash>>

headerTDKey(number, hash) == <<"ht", number, hash>>

headerNumberKey(hash) == <<"H", hash>>

blockBodyKey(number, hash) == <<"b", number, hash>>

blockReceiptsKey(number, hash) == <<"r", number, hash>>

txLookupKey(hash) == <<"l", hash>>

HeaderHash(header) == 100 + 10 * header.Number + header.Extra

TxHash(tx) == 1000 + tx

ReadHash(d, k) == IF dbGet(d, k).found THEN d[k] ELSE emptyHash

ReadDatabaseVersion(d) == dbGet(d, databaseVerisionKey)

WriteDatabaseVersion(d, v) == dbPut(d, databaseVerisionKey, v)

ReadChainConfig(d, hash) == dbGet(d, configKey(hash))

WriteChainConfig(d, hash, cfg) == dbPut(d, configKey(hash), cfg)

ReadCanonicalHash(d, number) == ReadHash(d, headerHashKey(number))

WriteCanonicalHash(d, hash, number) == dbPut(d, headerHashKey(number), hash)

ReadHeadBlockHash(d) == ReadHash(d, headBlockKey)

WriteHeadBlockHash(d, hash) == dbPut(d, headBlockKey, hash)

ReadHeadHeaderHash(d) == ReadHash(d, headHeaderKey)

WriteHeadHeaderHash(d, hash) == dbPut(d, headHeaderKey, hash)

ReadHeadFastBlockHash(d) == ReadHash(d, headFastBlockKey)

WriteHeadFastBlockHash(d, hash) == dbPut(d, headFastBlockKey, hash)

ReadTd(d, hash, number) == dbGet(d, headerTDKey(number, hash))

WriteTd(d, hash, number, td) == dbPut(d, headerTDKey(number, hash), td)

ReadHeader(d, hash, number) == dbGet(d, headerKey(number, hash))

WriteHeader(d, header) ==
    dbPut(dbPut(d, headerNumberKey(HeaderHash(header)), header.Number),
          headerKey(header.Number, HeaderHash(header)), header)

ReadBody(d, hash, number) == dbGet(d, blockBodyKey(number, hash))

WriteBody(d, hash, number, body) == dbPut(d, blockBodyKey(number, hash), body)

ReadBlock(d, hash, number) ==
    IF ~ReadHeader(d, hash, number).found \/ ~ReadBody(d, hash, number).found THEN Absent
    ELSE [found |-> TRUE,
          v |-> [header |-> ReadHeader(d, hash, number).v, txs |-> ReadBody(d, hash, number).v]]

WriteBlock(d, block) ==
    WriteHeader(WriteBody(d, HeaderHash(block.header), block.header.Number, block.txs), block.header)

TxLookupEntry(block, i) ==
    [BlockHash |-> HeaderHash(block.header), BlockIndex |-> block.header.Number, Index |-> i - 1]

RECURSIVE WriteTxLookupEntriesFrom(_, _, _)
WriteTxLookupEntriesFrom(d, block, i) ==
    IF i > Len(block.txs) THEN d
    ELSE WriteTxLookupEntriesFrom(dbPut(d, txLookupKey(TxHash(block.txs[i])), TxLookupEntry(block, i)),
                                  block, i + 1)

WriteTxLookupEntries(d, block) == WriteTxLookupEntriesFrom(d, block, 1)

ReadReceipts(d, hash, number) == dbGet(d, blockReceiptsKey(number, hash))

WriteReceipts(d, hash, number, receipts) == dbPut(d, blockReceiptsKey(number, hash), receipts)

Migrated(dst, hash, err) == [dst |-> dst, hash |-> hash, err |-> err]

migrateCanonicalHash(dstDb, srcDb, number) ==
    LET hash == ReadCanonicalHash(srcDb, number)
    IN  IF hash = emptyHash THEN Migrated(dstDb, hash, "could not find hash for block")
        ELSE Migrated(WriteCanonicalHash(dstDb, hash, number), hash, "")

migrateCanonicalHashAndTDSkipsTd(dstDb, srcDb, number) ==
    LET r == migrateCanonicalHash(dstDb, srcDb, number)
        td == ReadTd(srcDb, r.hash, number)
    IN  IF r.err # "" THEN r
        ELSE IF ~td.found THEN Migrated(r.dst, r.hash, "")
        ELSE Migrated(WriteTd(r.dst, r.hash, number, td.v), r.hash, "")

migrateCanonicalHashAndTD(dstDb, srcDb, number) ==
    LET r == migrateCanonicalHash(dstDb, srcDb, number)
        td == ReadTd(srcDb, r.hash, number)
    IN  IF r.err # "" THEN r
        ELSE IF ~td.found THEN Migrated(r.dst, r.hash, "missing data: td not found")
        ELSE Migrated(WriteTd(r.dst, r.hash, number, td.v), r.hash, "")

MigrateMetadataHeadsFromBlock(dstDb, srcDb) ==
    LET version0 == ReadDatabaseVersion(srcDb)
        d0 == IF version0.found THEN WriteDatabaseVersion(dstDb, version0.v) ELSE dstDb
        g == migrateCanonicalHash(d0, srcDb, 0)
        chainConfig == ReadChainConfig(srcDb, g.hash)
        d1 == WriteChainConfig(g.dst, g.hash, chainConfig.v)
        headBlockHash == ReadHeadBlockHash(srcDb)
        d2 == WriteHeadBlockHash(d1, headBlockHash)
    IN  IF g.err # "" THEN Migrated(g.dst, emptyHash, g.err)
        ELSE IF ~chainConfig.found THEN Migrated(g.dst, emptyHash, "could not find chain configuration")
        ELSE IF headBlockHash = emptyHash THEN Migrated(d1, emptyHash, "could not find head block hash")
        ELSE Migrated(WriteHeadFastBlockHash(WriteHeadHeaderHash(d2, headBlockHash), headBlockHash),
                      emptyHash, "")

MigrateMetadata(dstDb, srcDb) ==
    LET version0 == ReadDatabaseVersion(srcDb)
        d0 == IF version0.found THEN WriteDatabaseVersion(dstDb, version0.v) ELSE dstDb
        g == migrateCanonicalHash(d0, srcDb, 0)
        chainConfig == ReadChainConfig(srcDb, g.hash)
        d1 == WriteChainConfig(g.dst, g.hash, chainConfig.v)
        headBlockHash == ReadHeadBlockHash(srcDb)
        d2 == WriteHeadBlockHash(d1, headBlockHash)
        headHeaderHash == ReadHeadHeaderHash(srcDb)
        d3 == WriteHeadHeaderHash(d2, headHeaderHash)
        headFastBlockHash == ReadHeadFastBlockHash(srcDb)
    IN  IF g.err # "" THEN Migrated(g.dst, emptyHash, g.err)
        ELSE IF ~chainConfig.found THEN Migrated(g.dst, emptyHash, "could not find chain configuration")
        ELSE IF headBlockHash = emptyHash THEN Migrated(d1, emptyHash, "could not find head block hash")
        ELSE IF headHeaderHash = emptyHash THEN Migrated(d2, emptyHash, "could not find head header hash")
        ELSE IF headFastBlockHash = emptyHash
             THEN Migrated(d3, emptyHash, "could not find head fast block hash")
        ELSE Migrated(WriteHeadFastBlockHash(d3, headFastBlockHash), emptyHash, "")

MigrateCanonicalHeader(dstDb, srcDb, number) ==
    LET r == migrateCanonicalHashAndTD(dstDb, srcDb, number)
        header == ReadHeader(srcDb, r.hash, number)
    IN  IF r.err # "" THEN r
        ELSE IF ~header.found THEN Migrated(r.dst, r.hash, "missing data: block not found")
        ELSE Migrated(WriteHeader(r.dst, header.v), r.hash, "")

MigrateCanonicalBlockWithoutReceipts(dstDb, srcDb, number) ==
    LET r == migrateCanonicalHashAndTD(dstDb, srcDb, number)
        block == ReadBlock(srcDb, r.hash, number)
    IN  IF r.err # "" THEN r
        ELSE IF ~block.found THEN Migrated(r.dst, r.hash, "missing data: block not found")
        ELSE Migrated(WriteTxLookupEntries(WriteBlock(r.dst, block.v), block.v), r.hash, "")

MigrateCanonicalBlock(dstDb, srcDb, number) ==
    LET r == migrateCanonicalHashAndTD(dstDb, srcDb, number)
        block == ReadBlock(srcDb, r.hash, number)
        d1 == WriteTxLookupEntries(WriteBlock(r.dst, block.v), block.v)
        receipts == ReadReceipts(srcDb, r.hash, number)
    IN  IF r.err # "" THEN r
        ELSE IF ~block.found THEN Migrated(r.dst, r.hash, "missing data: block not found")
        ELSE IF ~receipts.found THEN Migrated(d1, r.hash, "missing data: transaction receipts not found")
        ELSE Migrated(WriteReceipts(d1, r.hash, number, receipts.v), r.hash, "")

(***************************************************************************)
(* SpecMigrate: a source store populated with the canonical chain          *)
(* 0..MigrateHeight and its metadata, from which up to MaxMissing records  *)
(* have been deleted, and a destination store that starts empty and        *)
(* receives up to MaxMigrations migrate calls.  drawn.last is the last     *)
(* call with both stores before it.                                        *)
(***************************************************************************)
MigrateHeight == 1

MaxMissing == 2

MaxMigrations == 3

defaultDBVersion == 1

canonicalBlockData(n) ==
    [header |-> [Number |-> n, Extra |-> n, Root |-> 500 + n], txs |-> <<3 * n, 3 * n + 1, 3 * n + 2>>]

ReceiptsOf(n) == <<"receipt", 3 * n, 3 * n + 1, 3 * n + 2>>

TdOf(n) == 1000 * n

BlockHash(n) == HeaderHash(canonicalBlockData(n).header)

\* The records the chain's writers store for block n.
BlockRecords(n) ==
    LET block == canonicalBlockData(n)
        d1 == WriteCanonicalHash(WriteBlock(<<>>, block), BlockHash(n), n)
        d2 == WriteTxLookupEntries(WriteTd(d1, BlockHash(n), n, TdOf(n)), block)
    IN  WriteReceipts(d2, BlockHash(n), n, ReceiptsOf(n))

RECURSIVE WriteChain(_, _)
WriteChain(d, n) == IF n < 0 THEN d ELSE BlockRecords(n) @@ WriteChain(d, n - 1)

PopulatedSource ==
    LET d0 == WriteChainConfig(WriteDatabaseVersion(<<>>, defaultDBVersion), BlockHash(0), "MainnetChainConfig")
        d1 == WriteHeadBlockHash(WriteChain(d0, MigrateHeight), BlockHash(MigrateHeight))
    IN  WriteHeadFastBlockHash(WriteHeadHeaderHash(d1, BlockHash(MigrateHeight)), BlockHash(MigrateHeight))

\* The subsets of S with at most n elements.
RECURSIVE SubsetsUpTo(_, _)
SubsetsUpTo(S, n) ==
    IF n = 0 THEN {{}}
    ELSE LET smaller == SubsetsUpTo(S, n - 1)
         IN  smaller \cup {m \cup {k} : m \in smaller, k \in S}

MigrateNumbers == 0..(MigrateHeight + 1)

MigrateCall(op, number, src, dst, err) ==
    [op |-> op, number |-> number, src |-> src, dst |-> dst, err |-> err]

MigrateInit ==
    /\ \E t \in {NewEmptyPrefixedLudicrousTrie(TriePrefix, <<>>, 0)} :
        version = t.version /\ root = t.root /\ db = t.storage.db
    /\ commits = <<>>
    /\ mutations = 0
    /\ others = NoOthers
    /\ \E missing \in SubsetsUpTo(DOMAIN PopulatedSource, MaxMissing) :
        drawn = [src |-> [k \in (DOMAIN PopulatedSource) \ missing |-> PopulatedSource[k]],
                 dst |-> <<>>,
                 calls |-> 0,
                 last |-> MigrateCall("None", 0, <<>>, <<>>, "")]

MigrateApply(op, number, r) ==
    /\ drawn.calls < MaxMigrations
    /\ drawn' = [src |-> drawn.src, dst |-> r.dst, calls |-> drawn.calls + 1,
                 last |-> MigrateCall(op, number, drawn.src, drawn.dst, r.err)]
    /\ UNCHANGED <<version, root, db, commits, mutations, others>>

MigrateMetadataOp ==
    \E r \in {MigrateMetadata(drawn.dst, drawn.src)} : MigrateApply("MigrateMetadata", 0, r)

MigrateCanonicalHeaderOp ==
    \E number \in MigrateNumbers :
        \E r \in {MigrateCanonicalHeader(drawn.dst, drawn.src, number)} :
            MigrateApply("MigrateCanonicalHeader", number, r)

MigrateCanonicalBlockOp ==
    \E number \in MigrateNumbers :
        \E r \in {MigrateCanonicalBlock(drawn.dst, drawn.src, number)} :
            MigrateApply("MigrateCanonicalBlock", number, r)

MigrateNext == MigrateMetadataOp \/ MigrateCanonicalHeaderOp \/ MigrateCanonicalBlockOp

SpecMigrate == MigrateInit /\ [][MigrateNext]_vars

\* The records of d under key k, as far as d holds it.
Holds(d, k) == k \in DOMAIN d

SameRecord(dst, src, k) == Holds(dst, k) /\ Holds(src, k) /\ dst[k] = src[k]

\* C26: MigrateMetadata returns an error exactly when the source lacks the
\* genesis canonical hash, the chain configuration under that hash, the head
\* block hash, the head header hash or the head fast-block hash; a missing
\* database version is no error and leaves the destination without one; on
\* success the destination holds each of these values as the source does.
C26_MigrateMetadata ==
    drawn.last.op = "MigrateMetadata" =>
        LET src == drawn.last.src
            genesis == headerHashKey(0)
            Required == {genesis, headBlockKey, headHeaderKey, headFastBlockKey}
            lacking == \/ \E k \in Required : ~Holds(src, k)
                       \/ ~Holds(src, configKey(src[genesis]))
        IN  /\ (drawn.last.err # "") <=> lacking
            /\ drawn.last.err = "" =>
                /\ \A k \in Required \cup {configKey(src[genesis])} : SameRecord(drawn.dst, src, k)
                /\ Holds(src, databaseVerisionKey) => SameRecord(drawn.dst, src, databaseVerisionKey)
                /\ ~Holds(src, databaseVerisionKey) => ~Holds(drawn.dst, databaseVerisionKey)

C26_Witness ==
    /\ drawn.last.op = "MigrateMetadata"
    /\ drawn.last.err = ""
    /\ ~Holds(drawn.last.src, databaseVerisionKey)
    /\ drawn.dst[headBlockKey] = BlockHash(MigrateHeight)

\* C27: MigrateCanonicalHeader(dst, src, n) returns an error when the source
\* lacks the canonical hash at n, or the total difficulty or the header of
\* that hash; on success the destination holds the canonical hash at n, the
\* header-number index, the header and the total difficulty as the source
\* does, and the call has written no body, receipts or transaction lookup.
C27_MigrateCanonicalHeader ==
    drawn.last.op = "MigrateCanonicalHeader" =>
        LET src == drawn.last.src
            n == drawn.last.number
            hash == ReadCanonicalHash(src, n)
            lacking == \/ ~Holds(src, headerHashKey(n))
                       \/ ~Holds(src, headerTDKey(n, hash))
                       \/ ~Holds(src, headerKey(n, hash))
        IN  /\ lacking => drawn.last.err # ""
            /\ drawn.last.err = "" =>
                /\ ~lacking
                /\ \A k \in {headerHashKey(n), headerKey(n, hash), headerTDKey(n, hash)} :
                     SameRecord(drawn.dst, src, k)
                /\ Holds(drawn.dst, headerNumberKey(hash)) /\ drawn.dst[headerNumberKey(hash)] = n
                /\ Holds(src, headerNumberKey(hash)) => SameRecord(drawn.dst, src, headerNumberKey(hash))
                /\ \A k \in DOMAIN drawn.dst :
                     k[1] \in {"b", "r", "l"} => (Holds(drawn.last.dst, k) /\ drawn.last.dst[k] = drawn.dst[k])

C27_Witness ==
    /\ drawn.last.op = "MigrateCanonicalHeader"
    /\ drawn.last.err = ""
    /\ drawn.last.number = 1
    /\ ~Holds(drawn.last.src, blockBodyKey(1, BlockHash(1)))
    /\ drawn.dst[headerKey(1, BlockHash(1))] = canonicalBlockData(1).header
    /\ ~Holds(drawn.last.dst, headerKey(1, BlockHash(1)))

\* C28: MigrateCanonicalBlock(dst, src, n) returns an error when the source
\* lacks the canonical hash at n, or the total difficulty, the header, the
\* body or the receipts of that block; on success the destination holds the
\* canonical hash, the number index, the header, the body, the total
\* difficulty, the transaction lookup entries and the receipts as the source
\* does.  No migrate operation writes the source store.
C28_MigrateCanonicalBlock ==
    /\ drawn.last.op # "None" => drawn.src = drawn.last.src
    /\ drawn.last.op = "MigrateCanonicalBlock" =>
        LET src == drawn.last.src
            n == drawn.last.number
            hash == ReadCanonicalHash(src, n)
            Records == {headerHashKey(n), headerKey(n, hash), headerTDKey(n, hash),
                        blockBodyKey(n, hash), blockReceiptsKey(n, hash)}
            lacking == \E k \in Records : ~Holds(src, k)
        IN  /\ lacking => drawn.last.err # ""
            /\ drawn.last.err = "" =>
                /\ ~lacking
                /\ \A k \in Records : SameRecord(drawn.dst, src, k)
                /\ Holds(drawn.dst, headerNumberKey(hash)) /\ drawn.dst[headerNumberKey(hash)] = n
                /\ Holds(src, headerNumberKey(hash)) => SameRecord(drawn.dst, src, headerNumberKey(hash))
                /\ \A i \in 1..Len(src[blockBodyKey(n, hash)]) :
                     LET k == txLookupKey(TxHash(src[blockBodyKey(n, hash)][i]))
                     IN  /\ Holds(drawn.dst, k)
                         /\ drawn.dst[k] = [BlockHash |-> hash, BlockIndex |-> n, Index |-> i - 1]
                         /\ Holds(src, k) => drawn.dst[k] = src[k]

C28_Witness ==
    /\ drawn.last.op = "MigrateCanonicalBlock"
    /\ drawn.last.err = ""
    /\ drawn.last.number = 1
    /\ drawn.dst[blockReceiptsKey(1, BlockHash(1))] = ReceiptsOf(1)
    /\ Holds(drawn.dst, txLookupKey(TxHash(5)))
    /\ ~Holds(drawn.last.dst, blockBodyKey(1, BlockHash(1)))

(***************************************************************************)
(* core: CreatePrunedSnapshot.  The source chain's store holds the blocks  *)
(* 0..height with the state of every block (a record under the header's   *)
(* state root); the destination starts empty.  The state migrator, the     *)
(* chain reader and the block insertion of the destination chain are       *)
(* modelled by the records they read and write.                            *)
(***************************************************************************)
genesisBlockNumber == 0

ommerValidationSupportDistance == 8

subWrapping(a, b) == IF b > a THEN 1073741824 - (b - a) ELSE a - b

subWithFloor(a, b) == IF b > a THEN 0 ELSE a - b

stateKey(stateRoot) == <<"s", stateRoot>>

StateOf(n) == <<"state", n>>

\* BlockChain.GetHeaderByNumber / GetBlockByNumber on the chain's store.
GetHeaderByNumber(d, number) == ReadHeader(d, ReadCanonicalHash(d, number), number)

GetBlockByNumber(d, number) == ReadBlock(d, ReadCanonicalHash(d, number), number)

\* state.Migrator: copies the state under stateRoot.
MigrateState(dstDb, srcDb, stateRoot) ==
    IF ~Holds(srcDb, stateKey(stateRoot)) THEN Migrated(dstDb, emptyHash, "missing state")
    ELSE Migrated(dbPut(dstDb, stateKey(stateRoot), srcDb[stateKey(stateRoot)]), emptyHash, "")

migrateMandatoryBlocks(dstDB, srcDb, pivotNumber) ==
    IF pivotNumber > genesisBlockNumber THEN MigrateCanonicalBlock(dstDB, srcDb, genesisBlockNumber)
    ELSE Migrated(dstDB, emptyHash, "")

migratePivotBlockAndState(dstDB, srcDb, pivotNumber) ==
    LET pivotHeader == GetHeaderByNumber(srcDb, pivotNumber)
        r == MigrateCanonicalBlock(dstDB, srcDb, pivotHeader.v.Number)
        hash == HeaderHash(pivotHeader.v)
        d1 == WriteHeadFastBlockHash(WriteHeadHeaderHash(WriteHeadBlockHash(r.dst, hash), hash), hash)
    IN  IF ~pivotHeader.found THEN Migrated(dstDB, emptyHash, "panic: nil pointer dereference")
        ELSE IF r.err # "" THEN r
        ELSE MigrateState(d1, srcDb, pivotHeader.v.Root)

RECURSIVE migrateCanonicalBlocks(_, _, _, _)
migrateCanonicalBlocks(dstDB, srcDb, n, end) ==
    IF n >= end THEN Migrated(dstDB, emptyHash, "")
    ELSE LET r == MigrateCanonicalBlock(dstDB, srcDb, n)
         IN  IF r.err # "" THEN r ELSE migrateCanonicalBlocks(r.dst, srcDb, n + 1, end)

migrateOmmerValidationSupportBlocks(dstDB, srcDb, pivotNumber) ==
    migrateCanonicalBlocks(dstDB, srcDb, subWithFloor(pivotNumber, ommerValidationSupportDistance), pivotNumber)

RECURSIVE migrateCanonicalHeaders(_, _, _, _)
migrateCanonicalHeaders(dstDB, srcDb, n, end) ==
    IF n >= end THEN Migrated(dstDB, emptyHash, "")
    ELSE LET r == MigrateCanonicalHeader(dstDB, srcDb, n)
         IN  IF r.err # "" THEN r ELSE migrateCanonicalHeaders(r.dst, srcDb, n + 1, end)

migrateRemainingHeaders(dstDB, srcDb, pivotNumber) ==
    migrateCanonicalHeaders(dstDB, srcDb, 0, subWithFloor(pivotNumber, ommerValidationSupportDistance))

\* BlockChain.InsertChain on the destination chain: a block is executed on
\* its parent's state and written with its receipts, total difficulty,
\* lookup entries and state, and becomes the head.
RECURSIVE InsertChain(_, _)
InsertChain(dstDB, blocks) ==
    IF blocks = <<>> THEN Migrated(dstDB, emptyHash, "")
    ELSE LET block == blocks[1]
             n == block.v.header.Number
             hash == HeaderHash(block.v.header)
             parent == GetHeaderByNumber(dstDB, n - 1)
             d1 == WriteTd(WriteBlock(dstDB, block.v), hash, n, TdOf(n))
             d2 == WriteTxLookupEntries(WriteReceipts(d1, hash, n, ReceiptsOf(n)), block.v)
             d3 == WriteCanonicalHash(dbPut(d2, stateKey(block.v.header.Root), StateOf(n)), hash, n)
             d4 == WriteHeadFastBlockHash(WriteHeadHeaderHash(WriteHeadBlockHash(d3, hash), hash), hash)
         IN  IF ~block.found THEN Migrated(dstDB, emptyHash, "panic: nil pointer dereference")
             ELSE IF ~parent.found THEN Migrated(dstDB, emptyHash, "unknown ancestor")
             ELSE IF ~Holds(dstDB, stateKey(parent.v.Root)) THEN Migrated(dstDB, emptyHash, "pruned ancestor")
             ELSE InsertChain(d4, Tail(blocks))

migrateBlocksAfterPivotWithState(dstDB, srcDb, pivotNumber, height) ==
    IF ~GetHeaderByNumber(dstDB, genesisBlockNumber).found THEN Migrated(dstDB, emptyHash, "genesis not found in chain")
    ELSE InsertChain(dstDB, [i \in 1..(height - pivotNumber) |-> GetBlockByNumber(srcDb, pivotNumber + i)])

(***************************************************************************)
(* SpecSnapshot: CreatePrunedSnapshot on a chain of height 0..MaxHeight    *)
(* with a pivot distance of 0..MaxHeight + 1, from a source store that     *)
(* lacks at most one record.  The steps of CreatePrunedSnapshot run in     *)
(* program order; drawn.pc names the next one.                             *)
(***************************************************************************)
MaxHeight == 11

RECURSIVE WriteStates(_, _)
WriteStates(d, n) ==
    IF n < 0 THEN d
    ELSE dbPut(WriteStates(d, n - 1), stateKey(canonicalBlockData(n).header.Root), StateOf(n))

SourceChain(height) ==
    LET d0 == WriteChainConfig(WriteDatabaseVersion(<<>>, defaultDBVersion), BlockHash(0), "MainnetChainConfig")
        d1 == WriteHeadBlockHash(WriteStates(WriteChain(d0, height), height), BlockHash(height))
    IN  WriteHeadFastBlockHash(WriteHeadHeaderHash(d1, BlockHash(height)), BlockHash(height))

SnapshotInit ==
    /\ \E t \in {NewEmptyPrefixedLudicrousTrie(TriePrefix, <<>>, 0)} :
        version = t.version /\ root = t.root /\ db = t.storage.db
    /\ commits = <<>>
    /\ mutations = 0
    /\ others = NoOthers
    /\ \E height \in 0..MaxHeight, pivotDistance \in 0..(MaxHeight + 1) :
        \E chain \in {SourceChain(height)} :
            \E missing \in SubsetsUpTo({k \in DOMAIN chain : k[1] # "l"}, 1) :
                drawn = [src |-> [k \in (DOMAIN chain) \ missing |-> chain[k]],
                         dst |-> <<>>,
                         height |-> height,
                         pivotDistance |-> pivotDistance,
                         pivotNumber |-> 0,
                         pc |-> "MigrateMetadata",
                         err |-> ""]

SnapshotStep(pc, next, r) ==
    /\ drawn.pc = pc
    /\ drawn' = [drawn EXCEPT !.dst = r.dst,
                              !.err = r.err,
                              !.pc = IF r.err # "" THEN "failed" ELSE next]
    /\ UNCHANGED <<version, root, db, commits, mutations, others>>

CreatePrunedSnapshotOp ==
    /\ drawn.pc = "MigrateMetadata"
    /\ \E r \in {MigrateMetadata(drawn.dst, drawn.src)} :
        drawn' = [drawn EXCEPT !.pivotNumber = subWithFloor(drawn.height, drawn.pivotDistance),
                               !.dst = r.dst,
                               !.err = r.err,
                               !.pc = IF r.err # "" THEN "failed" ELSE "migrateMandatoryBlocks"]
    /\ UNCHANGED <<version, root, db, commits, mutations, others>>

migrateMandatoryBlocksOp ==
    /\ drawn.pc = "migrateMandatoryBlocks"
    /\ \E r \in {migrateMandatoryBlocks(drawn.dst, drawn.src, drawn.height)} :
        SnapshotStep("migrateMandatoryBlocks", "migratePivotBlockAndState", r)

migratePivotBlockAndStateOp ==
    /\ drawn.pc = "migratePivotBlockAndState"
    /\ \E r \in {migratePivotBlockAndState(drawn.dst, drawn.src, drawn.pivotNumber)} :
        SnapshotStep("migratePivotBlockAndState", "migrateOmmerValidationSupportBlocks", r)

migrateOmmerValidationSupportBlocksOp ==
    /\ drawn.pc = "migrateOmmerValidationSupportBlocks"
    /\ \E r \in {migrateOmmerValidationSupportBlocks(drawn.dst, drawn.src, drawn.pivotNumber)} :
        SnapshotStep("migrateOmmerValidationSupportBlocks", "migrateRemainingHeaders", r)

migrateRemainingHeadersOp ==
    /\ drawn.pc = "migrateRemainingHeaders"
    /\ \E r \in {migrateRemainingHeaders(drawn.dst, drawn.src, drawn.pivotNumber)} :
        SnapshotStep("migrateRemainingHeaders", "migrateBlocksAfterPivotWithState", r)

migrateBlocksAfterPivotWithStateOp ==
    /\ drawn.pc = "migrateBlocksAfterPivotWithState"
    /\ \E r \in {migrateBlocksAfterPivotWithState(drawn.dst, drawn.src, drawn.pivotNumber, drawn.height)} :
        SnapshotStep("migrateBlocksAfterPivotWithState", "done", r)

SnapshotNext ==
    \/ CreatePrunedSnapshotOp
    \/ migrateMandatoryBlocksOp
    \/ migratePivotBlockAndStateOp
    \/ migrateOmmerValidationSupportBlocksOp
    \/ migrateRemainingHeadersOp
    \/ migrateBlocksAfterPivotWithStateOp

SpecSnapshot == SnapshotInit /\ [][SnapshotNext]_vars

\* d holds block n of the canonical chain in full: canonical hash, header,
\* body, total difficulty and receipts.
HoldsBlock(d, n) ==
    /\ ReadCanonicalHash(d, n) = BlockHash(n)
    /\ ReadBlock(d, BlockHash(n), n) = [found |-> TRUE, v |-> canonicalBlockData(n)]
    /\ ReadTd(d, BlockHash(n), n) = [found |-> TRUE, v |-> TdOf(n)]
    /\ ReadReceipts(d, BlockHash(n), n) = [found |-> TRUE, v |-> ReceiptsOf(n)]

HoldsHeader(d, n) ==
    /\ ReadCanonicalHash(d, n) = BlockHash(n)
    /\ ReadHeader(d, BlockHash(n), n) = [found |-> TRUE, v |-> canonicalBlockData(n).header]
    /\ ReadTd(d, BlockHash(n), n) = [found |-> TRUE, v |-> TdOf(n)]

\* C29: CreatePrunedSnapshot with height H and pivot distance D uses the
\* pivot P = H - D, or 0 when D > H; on success the destination holds the
\* chain metadata, the genesis block, the pivot block in full with its state,
\* the blocks of [max(P-8, 0), P) in full, the headers of every
\* n < max(P-8, 0) and the blocks of (P, H] in full; when the blocks after
\* the pivot are about to be inserted the three head pointers are the pivot.
C29_PrunedSnapshot ==
    LET H == drawn.height
        D == drawn.pivotDistance
        P == IF D > H THEN 0 ELSE H - D
        W == IF P > 8 THEN P - 8 ELSE 0
    IN  /\ drawn.pc # "MigrateMetadata" => drawn.pivotNumber = P
        /\ drawn.pc = "migrateBlocksAfterPivotWithState" =>
            /\ ReadHeadBlockHash(drawn.dst) = BlockHash(P)
            /\ ReadHeadHeaderHash(drawn.dst) = BlockHash(P)
            /\ ReadHeadFastBlockHash(drawn.dst) = BlockHash(P)
        /\ drawn.pc = "done" =>
            /\ ReadChainConfig(drawn.dst, BlockHash(0)) = ReadChainConfig(drawn.src, BlockHash(0))
            /\ ReadChainConfig(drawn.dst, BlockHash(0)).found
            /\ ReadDatabaseVersion(drawn.dst) = ReadDatabaseVersion(drawn.src)
            /\ HoldsBlock(drawn.dst, 0)
            /\ HoldsBlock(drawn.dst, P)
            /\ dbGet(drawn.dst, stateKey(canonicalBlockData(P).header.Root)) = [found |-> TRUE, v |-> StateOf(P)]
            /\ \A n \in W..(P - 1) : HoldsBlock(drawn.dst, n)
            /\ \A n \in 0..(W - 1) : HoldsHeader(drawn.dst, n)
            /\ \A n \in (P + 1)..H : HoldsBlock(drawn.dst, n)

C29_Witness ==
    /\ drawn.pc = "done"
    /\ drawn.height = 11
    /\ drawn.pivotNumber = 10
    /\ HoldsHeader(drawn.dst, 1)
    /\ ~ReadBody(drawn.dst, BlockHash(1), 1).found
    /\ HoldsBlock(drawn.dst, 2)
    /\ HoldsBlock(drawn.dst, 11)
    /\ ReadHeadBlockHash(drawn.dst) = BlockHash(11)

(***************************************************************************)
(* SpecFaulty: a handle opened on a committed trie whose backing store has *)
(* lost up to MaxLost records and holds up to MaxAltered value records     *)
(* with another content afterwards, under up to MaxFaultyCalls Update,    *)
(* Remove and Commit calls.  drawn is the last call with the handle and    *)
(* the store before it.                                                    *)
(***************************************************************************)
MaxLost == 2

MaxFaultyCalls == 2

MaxAltered == 1

FaultyCall(op, key, before, err, calls) ==
    [op |-> op, key |-> key, before |-> before, err |-> err, calls |-> calls]

\* The handle opened at the Commit of the trie that maps the keys of S to <<1>>.
OpenedOn(S) ==
    LET Opened(built, c) == NewPrefixedLudicrousTrie(TriePrefix, c.t.storage.db, c.hash, built.version).t
        Built(built) == Opened(built, Commit(built))
    IN  Built(InsertAll(NewEmptyPrefixedLudicrousTrie(TriePrefix, <<>>, 0),
                        [k \in Keys |-> [value |-> IF k \in S THEN <<1>> ELSE NilBytes]], 1))

\* the value records of store d, whose blob a faulty store may have altered
ValueRecords(d) == {k \in DOMAIN d : d[k].t = "raw"}

FaultyInit ==
    /\ commits = <<>>
    /\ mutations = 0
    /\ others = NoOthers
    /\ \E S \in (SUBSET Keys) \ {{}} :
        \E t \in {OpenedOn(S)} :
            \E lost \in SubsetsUpTo(DOMAIN t.storage.db, MaxLost) :
                \E altered \in SubsetsUpTo(ValueRecords(t.storage.db) \ lost, MaxAltered) :
                    /\ version = t.version
                    /\ root = t.root
                    /\ db = [k \in (DOMAIN t.storage.db) \ lost |->
                                IF k \in altered THEN RawBlob(<<2>>) ELSE t.storage.db[k]]
                    /\ drawn = FaultyCall("None", NilBytes, t, "", 0)

FaultyApply(op, key, r) ==
    /\ drawn.calls < MaxFaultyCalls
    /\ root' = r.t.root
    /\ version' = r.t.version
    /\ db' = r.t.storage.db
    /\ drawn' = FaultyCall(op, key, T, r.err, drawn.calls + 1)
    /\ UNCHANGED <<commits, mutations, others>>

FaultyUpdateOp ==
    \E w \in Writes : \E r \in {Update(T, w[1], w[2])} : FaultyApply("Update", w[1], r)

FaultyRemoveOp ==
    \E key \in Keys : \E r \in {Remove(T, key)} : FaultyApply("Remove", key, r)

\* Commit on the faulty store: the batch write either succeeds or fails
FaultyCommitOp ==
    \E failed \in BOOLEAN :
        \E r \in {IF failed THEN CommitOnFailedWrite(T) ELSE Commit(T)} :
            FaultyApply("Commit", NilBytes, r)

FaultyNext == FaultyUpdateOp \/ FaultyRemoveOp \/ FaultyCommitOp

SpecFaulty == FaultyInit /\ [][FaultyNext]_vars

\* C30: when Update or Remove returns an error (a Stored placeholder or the
\* sole surviving child of a collapsing branch cannot be loaded), the root
\* with its tombstone sets, the in-progress version and the store are those
\* before the call; a call that replaces the root returns no error.
C30_FailedMutationIsAtomic ==
    drawn.op \in {"Update", "Remove"} =>
        /\ drawn.err # "" =>
            /\ root = drawn.before.root
            /\ Tombstones(root) = Tombstones(drawn.before.root)
            /\ version = drawn.before.version
            /\ db = drawn.before.storage.db
        /\ root # drawn.before.root => drawn.err = ""

C30_Witness ==
    /\ drawn.op = "Remove"
    /\ drawn.err # ""
    /\ drawn.calls = 2
    /\ HasKind(root, "Stored")
    /\ Get(T, drawn.key).err = ""
    /\ Get(T, drawn.key).value = <<2>>

\* C31: a Commit that returns an error (here: the batch write fails) leaves
\* the in-progress version and the root as they were before the call, so
\* that a retried Commit targets the same version.
C31_FailedCommitIsAtomic ==
    (drawn.op = "Commit" /\ drawn.err # "") =>
        /\ version = drawn.before.version
        /\ root = drawn.before.root

\* the nodes reachable from n in memory are Nil or Stored placeholders only
OnlyPlaceholders(n) ==
    ~HasKind(n, "Leaf") /\ ~HasKind(n, "Full") /\ ~HasKind(n, "WithDeletedKeys")

\* the puts that a Commit of handle t stages in its batch
Staged(t) == finalize(t.storage, t.root, <<>>, doStore, doForceHash).batch

\* C32: after a successful Commit the nodes it wrote are held in memory as
\* Stored placeholders and the tombstone overlays it recorded are gone, so
\* that a Commit that follows at once stages no node, value or tombstone put.
C32_CommitLeavesPlaceholders ==
    [][Len(commits') = Len(commits) + 1 =>
        /\ OnlyPlaceholders(root')
        /\ Tombstones(root') = {}
        /\ Staged(Handle(version', root', db')) = <<>>]_vars

\* the tombstone sets of the overlay nodes reachable from n in memory
RECURSIVE Overlays(_)
Overlays(n) ==
    CASE n.kind = "WithDeletedKeys" -> {n.DeletedKeys} \cup Overlays(n.Node)
      [] n.kind = "Full" -> UNION {Overlays(n.Children[i]) : i \in Radixes}
      [] OTHER -> {}

\* C33: in every state reached by Update and Remove an overlay node is part
\* of the trie only with a non-empty tombstone set: an Update that inserts
\* the last tombstoned key of an overlay returns the inner node unwrapped.
C33_OverlaysHoldTombstones ==
    /\ \A ks \in Overlays(root) : KeySetLen(ks) > 0
    /\ \A w \in Writes :
        \E r \in {Update(T, w[1], w[2])} :
            r.err = "" => \A ks \in Overlays(r.t.root) : KeySetLen(ks) > 0

(***************************************************************************)
(* SpecIterators: the trie handle of Spec with the iterators that its      *)
(* storage operations obtain from the backing store and do not release.    *)
(* drawn.open is the number of iterators obtained and not yet released.    *)
(***************************************************************************)
MaxOpenIterators == 2

\* the iterators a storage operation obtains and the ones it has released
\* when it returns
IteratorUse(obtained, released) == [obtained |-> obtained, released |-> released]

\* no iterator before the terminator check or when prefixing panics; then
\* one iterator from valueIteratorForRange, and no Release on any return
IteratorsOfLoadLatestValueNodeWithExactPath(c, path, maxVersion) ==
    IF ~HasTerm(path) \/ PrefixPanics(c) THEN IteratorUse(0, 0) ELSE IteratorUse(1, 0)

\* Get obtains an iterator exactly when get ends at a Stored placeholder
IteratorsOfGet(t, key) ==
    IF checkKey(key) = "" /\ ReachesStored(t.root, KeybytesHex(key), 0)
    THEN IteratorsOfLoadLatestValueNodeWithExactPath(t.storage, KeybytesHex(key), t.version - 1)
    ELSE IteratorUse(0, 0)

IteratorsInit ==
    \E t \in {NewEmptyPrefixedLudicrousTrie(TriePrefix, <<>>, 0)} :
        /\ version = t.version
        /\ root = t.root
        /\ db = t.storage.db
        /\ commits = <<>>
        /\ mutations = 0
        /\ others = NoOthers
        /\ drawn = [open |-> 0]

IteratorsGetOp(key) ==
    \E r \in {Get(T, key)}, use \in {IteratorsOfGet(T, key)} :
        /\ drawn.open < MaxOpenIterators
        /\ r.err \in {"", checkKey(key)}
        /\ drawn' = [open |-> drawn.open + use.obtained - use.released]
        /\ UNCHANGED <<version, root, db, commits, mutations, others>>

\* Update, Remove and the constructors load through LoadNode (a point read)
\* and through LoadLeafNodeWithExactPrefixAndVersion and LoadLatestRootNode,
\* whose iterator is released by `defer it.Release()` on every return;
\* Commit and Hash obtain none
IteratorsNext ==
    \/ \E k \in Keys \cup BadKeys : IteratorsGetOp(k)
    \/ \E w \in Writes : UpdateOp(w[1], w[2])
    \/ \E k \in Keys : RemoveOp(k)
    \/ HashOp
    \/ CommitOp
    \/ \E i, j \in DOMAIN commits : OpenOp(commits[i].hash, commits[j].version)

SpecIterators == IteratorsInit /\ [][IteratorsNext]_vars

HashOnStoring(t) ==
    LET Returned(r) ==
            [t    |-> [t EXCEPT !.storage.db = r.db],
             hash |-> r.hash,
             err  |-> r.err]
    IN  Returned(Finalize(t.storage, t.root, <<>>, doStore, doForceHash))

\* Hash with the handle it leaves: the receiver's fields, none of which Hash
\* assigns, over the store as Finalize leaves it
HashOn(t) ==
    LET Returned(r) ==
            [t    |-> [t EXCEPT !.storage.db = r.db],
             hash |-> r.hash,
             err  |-> r.err]
    IN  Returned(Finalize(t.storage, t.root, <<>>, doNotStore, doForceHash))

\* C35: Hash is read-only: it stages no put and writes nothing to the
\* store, it leaves the root with its tombstone sets and the in-progress
\* version as they are, a second Hash returns the same, and the handle
\* after it is the handle before it, so that every later operation returns
\* what it returns without the Hash.
C35_HashIsReadOnly ==
    \E r \in {HashOn(T)} :
        /\ [hash |-> r.hash, err |-> r.err] = Hash(T)
        /\ finalize(T.storage, root, <<>>, doNotStore, doForceHash).batch = <<>>
        /\ r.t.storage.db = db
        /\ r.t.root = root
        /\ Tombstones(r.t.root) = Tombstones(root)
        /\ r.t.version = version
        /\ HashOn(r.t) = r
        /\ r.t = T
        /\ Reads(r.t) = Reads(T)
        /\ Commit(r.t).hash = Commit(T).hash

\* Hash on a handle that holds nodes and a tombstone no Commit has written
\* yet, next to Stored placeholders
C35_Witness ==
    /\ Hash(T).err = ""
    /\ Hash(T).hash # emptyRoot
    /\ Staged(T) # <<>>
    /\ \E d \in Tombstones(root) : d[2] = version
    /\ HasKind(root, "Stored")
    /\ HasKind(root, "Leaf")

\* the compact record of the branch b of handle t, built from the integrity
\* nodes of its children as finalizeFullNode hands them to storeFullNode
BranchRecord(t, b) ==
    LET Record(r) == storedFullNode(b.node, [i \in Radixes |-> r[i].item])
    IN  Record(finalizeFullNodeChildren(t.storage, b.node, b.path, doStore, doNotForceHash))

\* the branches of handle t whose record a Commit of t stages
WrittenBranches(t) ==
    LET Among(staged) ==
            {b \in Branches(t.root, <<>>) :
                \E k \in DOMAIN staged :
                    staged[k] = Store(t.storage, b.path, b.node.version, BranchRecord(t, b))}
    IN  Among(Staged(t))

\* the integrity node of n at path, as Hash and the hash check compute it
IntegrityOf(t, n, path) == finalize(t.storage, n, path, doNotStore, doForceHash).item

\* the node under the overlays of n
RECURSIVE Unwrapped(_)
Unwrapped(n) == IF n.kind = "WithDeletedKeys" THEN Unwrapped(n.Node) ELSE n

\* C36: the compact record that Commit writes for a branch decodes to a
\* branch with the same prefix, version and living slots; a child written
\* as a 32-byte hash becomes the Stored placeholder of that hash with the
\* leaf bit and the version of its slot, a child written inline decodes to
\* a node with the same prefix and value (a leaf to the same leaf at the
\* version of its slot); finalizing the decoded branch yields the hash of
\* the original.
C36_BranchRecordRoundTrip ==
    \A b \in WrittenBranches(T) :
        \E d \in {decodeVersionedNodeWithPrefix(BranchRecord(T, b), b.node.version)},
           written \in {finalizeFullNodeChildren(T.storage, b.node, b.path, doStore, doNotForceHash)} :
            /\ d.err = ""
            /\ d.n.kind = "Full"
            /\ d.n.Key = b.node.Key
            /\ d.n.version = b.node.version
            /\ Living(d.n) = Living(b.node)
            /\ \A i \in Living(b.node) :
                \E child \in {b.node.Children[i]} :
                    IF written[i].item.t = "hash"
                    THEN d.n.Children[i] =
                            NewStored(written[i].item, representsLeafNode(child), NodeVersion(child))
                    ELSE /\ d.n.Children[i].kind = Unwrapped(child).kind
                         /\ d.n.Children[i].kind \in {"Leaf", "Full"}
                         /\ d.n.Children[i].Key = Unwrapped(child).Key
                         /\ d.n.Children[i].version = NodeVersion(child)
                         /\ d.n.Children[i].kind = "Leaf" => d.n.Children[i] = Unwrapped(child)
                         /\ IntegrityOf(T, d.n.Children[i], b.path \o b.node.Key \o <<i>>)
                                = IntegrityOf(T, child, b.path \o b.node.Key \o <<i>>)
            /\ IntegrityOf(T, d.n, b.path) = IntegrityOf(T, b.node, b.path)
            /\ IntegrityOf(T, d.n, b.path).t = "hash"

\* a written branch with a child behind a placeholder, and a written branch
\* with a leaf written inline that is older than the branch
C36_Witness ==
    /\ \E b \in WrittenBranches(T) :
        \E i \in Living(b.node) : b.node.Children[i].kind = "Stored"
    /\ \E b \in WrittenBranches(T) :
        \E written \in {finalizeFullNodeChildren(T.storage, b.node, b.path, doStore, doNotForceHash)} :
            \E i \in Living(b.node) :
                /\ written[i].item.t # "hash"
                /\ b.node.Children[i].kind = "Leaf"
                /\ b.node.Children[i].version < b.node.version

\* the Stored placeholder at which the descent of update (through = TRUE:
\* overlays are passed) or remove (an overlay that holds the path stops it)
\* along path arrives in memory, with the index it arrives at
RECURSIVE StoredOnPath(_, _, _, _)
StoredOnPath(n, path, index, through) ==
    IF IsLive(n) /\ ~PrefixContainedIn(n, path, index) THEN {}
    ELSE CASE n.kind = "Full" ->
                StoredOnPath(n.Children[At(path, index + Len(n.Key))], path,
                             index + Len(n.Key) + 1, through)
           [] n.kind = "WithDeletedKeys" ->
                IF ~through /\ KeySetContains(n.DeletedKeys, path) THEN {}
                ELSE StoredOnPath(n.Node, path, index, through)
           [] n.kind = "Stored" -> {[node |-> n, index |-> index]}
           [] OTHER -> {}

\* the integrity hash recomputed for the loaded node n equals hash
Verified(t, n, path, hash) ==
    \E r \in {Finalize(t.storage, n, path, doNotStore, doNotForceHash)} :
        r.err = "" /\ r.hash = hash

\* C37: a node loaded from the store in place of a Stored placeholder during
\* Update or Remove becomes part of the trie only when its recomputed
\* integrity hash equals the hash of the placeholder; on a mismatch the
\* operation fails and the root is not replaced, both when the operation
\* descends into the placeholder and when the placeholder is loaded as the
\* sole surviving child of a collapsing branch.
C37_LoadedNodesAreVerified ==
    /\ \A w \in Writes :
        \A s \in StoredOnPath(root, KeybytesHex(w[1]), 0, TRUE) :
            \E loaded \in {loadForUpdate(T, s.node, Upto(KeybytesHex(w[1]), s.index))},
               r \in {Update(T, w[1], w[2])} :
                (loaded.err = "" /\ ~Verified(T, loaded.n, KeybytesHex(w[1]), s.node.Hash)) =>
                    (r.err # "" /\ r.t.root = root)
    /\ \A k \in Keys :
        \A s \in StoredOnPath(root, KeybytesHex(k), 0, FALSE) :
            \E loaded \in {loadForRemove(T, s.node, KeybytesHex(k), s.index)},
               r \in {Remove(T, k)} :
                (loaded.err = "" /\ ~Verified(T, loaded.n, KeybytesHex(k), s.node.Hash)) =>
                    (r.err # "" /\ r.t.root = root)
    /\ \A b \in Branches(root, <<>>) :
        Cardinality(Living(b.node)) = 2 =>
            \A gone \in Living(b.node) : \A kept \in Living(b.node) \ {gone} :
                b.node.Children[kept].kind = "Stored" =>
                    \E loaded \in {loadChild(T, b.path, b.node.Key, kept,
                                             b.node.Children[kept].IsLeaf,
                                             b.node.Children[kept].version)},
                       r \in {replaceChild(T, b.node, NewNil, gone, b.path)} :
                        (loaded.err = "" /\ ~Verified(T, loaded.n, b.path \o b.node.Key \o <<kept>>,
                                                      b.node.Children[kept].Hash)) =>
                            r.err # ""

\* C38: in every state reached by Update, Remove, Commit and opening from the
\* store every leaf held in memory sits at a full path of 65 nibbles, the
\* nibbles of its key and the terminator: the path of its place followed by
\* its prefix is the hex form of a key, and the path-length assertion of
\* the finalizer's leaf case does not fire in a Commit.
C38_LeavesSitAtKeyPaths ==
    /\ \A l \in LeavesAt(root, <<>>) :
        /\ Len(l.path) = hexEncodingKeySize
        /\ l.path[hexEncodingKeySize] = hexEncodingTerm
        /\ \E k \in Keys : l.path = KeybytesHex(k)
    /\ Commit(T).err = ""

\* a handle opened from the store: a branch loaded from it holds leaves of
\* one nibble written by an earlier version, next to a Stored placeholder
C38_Witness ==
    /\ commits # <<>>
    /\ HasKind(root, "Stored")
    /\ \E l \in LeavesAt(root, <<>>) : Len(l.leaf.Key) = 1 /\ l.leaf.version < version
    /\ \E l \in LeavesAt(root, <<>>) : l.leaf.version = version

(***************************************************************************)
(* SpecReopen: one VectorDB under Append, Get and Close calls and under    *)
(* Open calls with the same name and directory after a Close.  The two     *)
(* files live on in the directory; the size that os.Stat reports for the   *)
(* directory is the file system's choice.                                  *)
(***************************************************************************)
\* sizes in bytes that file systems report for a directory of two files
DirectorySizes == {0, 18, 80, 4096}

\* Open on the existing directory of f: the item count is the size of the
\* directory (the path that is passed to os.Stat) divided by the entry
\* size; INDEX and DATA are opened as they are
VectorDBOpenExisting(f, directorySize) ==
    [items |-> directorySize \div indexEntryLen, open |-> TRUE, index |-> f.index, data |-> f.data]

FridgeReopenOp ==
    /\ ~drawn.f.open
    /\ \E size \in DirectorySizes : \E f \in {VectorDBOpenExisting(drawn.f, size)} :
        drawn' = [drawn EXCEPT !.f = f, !.last = FridgeCall("Reopen", size, drawn.f, <<>>, "")]
    /\ UNCHANGED <<version, root, db, commits, mutations, others>>

ReopenNext == FridgeAppendOp \/ FridgeGetOp \/ FridgeCloseOp \/ FridgeReopenOp

SpecReopen == FridgeInit /\ [][ReopenNext]_vars

\* C39: after n items were appended and the VectorDB was closed, Open with
\* the same name and directory gives a VectorDB with Items() = n in which
\* Get(i) returns the i-th appended item for every i < n; the item count is
\* the length of the INDEX file divided by the entry size.
C39_ReopenKeepsItems ==
    drawn.last.op = "Reopen" =>
        /\ Items(drawn.f) = Len(drawn.appended)
        /\ Items(drawn.f) = Len(drawn.f.index) \div indexEntryLen
        /\ \A i \in 0..(Len(drawn.appended) - 1) :
            VectorDBGet(drawn.f, i) = [b |-> drawn.appended[i + 1], err |-> ""]

====
